---------------------------- MODULE Spec2Model ----------------------------
(***************************************************************************)
(* A model of RECHARTED.IO's chart-data pipeline:                          *)
(*   - the interval policy tables            (lib/api: getIntervalMs ...)  *)
(*   - the synthetic history generators      (generateHistoricalDataFrom-  *)
(*                                            Pair, generateMockChartData) *)
(*   - the GET /api/codex route              (app/api/codex/route.ts)      *)
(*   - the market data resolver              (fetchChartDataWithHistory,   *)
(*                                            fetchChartData, ...)         *)
(*   - the tweet resolver                    (fetchTweetData)              *)
(*                                                                         *)
(* Conventions.                                                            *)
(*   Durations are whole seconds: every entry of the source's tables is    *)
(*   written as k * 1000 ms, and 60 days of milliseconds does not fit the  *)
(*   model checker's integers.  An instant is [s, ms]: whole seconds and   *)
(*   the millisecond remainder (0..999), so that Math.floor(t / 1000) and  *)
(*   the ISO round trip are modelled at the source's precision.            *)
(*   A JavaScript number whose magnitude is irrelevant is the set of       *)
(*   IEEE-754 classes it may have ("NaN", "NegInf", "Neg", "Zero", "Pos",  *)
(*   "PosInf"); finite arithmetic is read over the reals.                  *)
(***************************************************************************)
EXTENDS Integers, Sequences, FiniteSets, TLC

VARIABLES
    \* ---- synthetic history generator (one call) ----
    gPc,          \* "off" | "ready" | "done"
    gKind,        \* "pair" (generateHistoricalDataFromPair) | "mock"
    gTimeframe,   \* the timeframe token passed in
    gTweet,       \* tweetTimestamp argument: NoTweet or an ISO string
    gNow,         \* the instant new Date() returns during the call
    gPair,        \* the DexScreener pair snapshot (pair kind only)
    gPolicy,      \* the locals intervalMs, timeframeMs, maxDataPoints
    gOut,         \* the returned {prices, volumes, timestamps}
    \* ---- fetchChartDataWithHistory (one call) ----
    rPc,          \* "idle" | "start" | "codex" | "dex" | "pepe" | "done"
    rInput,       \* chartUrl, timeframe, tweetTimestamp
    rCtx,         \* the locals alive across awaits
    rFetches,     \* the requests the call has issued, oldest first
    rResult,      \* how the returned promise settled
    \* ---- fetchTweetData (one call) ----
    tPc,          \* "idle" | "start" | "fetch" | "done"
    tUrl,         \* tweetUrl
    tNow,         \* the clock read by new Date()
    tFetches,     \* network requests issued by the call
    tResult,      \* how the returned promise settled
    \* ---- GET /api/codex (one request) ----
    cPc,          \* "idle" | "start" | "tokenInfo" | "dexInfo" | "bars1".."bars6" | "done"
    cRequest,     \* the query string: symbol, timeframe, tweetTimestamp
    cEnv,         \* process.env.CODEX_API_KEY and Date.now()
    cLocals,      \* tokenInfo?.symbol, displaySymbol, `variables`, the last bars
                  \* payload, the error caught, the await last settled
    cSent,        \* the upstream requests issued so far, oldest first
    cResponse,    \* the NextResponse returned
    \* ---- the page component TweetChartAnchor ----
    pPc,          \* position of handleGenerate: "idle" | "test" | "tweet" | "chart"
    pInput,       \* the state tweetUrl, chartUrl, timeframe
    pClosure,     \* tweetUrl, chartUrl, timeframe as the running handleGenerate closed over them
    isLoading,    \* useState(false)
    isGenerated,  \* useState(false)
    chartData,    \* "undefined" | "ready"
    apiChartData, \* "undefined" or the source tag of the stored result
    fetchedTweetData, \* NoTweetRecord for null, or the stored tweet record
    pToast,       \* the title of the last toast shown ("" for none)
    pRuns,        \* handleGenerate invocations so far
    \* ---- calculateTimeAnchorOnLine (one call) ----
    aPc,          \* "idle" | "ready" | "done"
    aInput,       \* component version, timeframe, time, chartData, chart
    aResult,      \* the returned {x, y} and the index it was taken at
    \* ---- GET /api/tweet (one request) ----
    ePc,          \* "idle" | "start" | "fetch" | "json" | "done"
    eInput,       \* the id parameter of the query, the clock, the time zone
    eData,        \* the body the syndication API answered with
    eResponse,    \* the NextResponse returned
    \* ---- the page with overlapping handleGenerate invocations ----
    oRuns,        \* the invocations so far: position and the closure's inputs
    oDone,        \* the invocations that have finished, in completion order
    \* ---- GET /api/historical-data (one request) ----
    hPc,          \* "idle" | "start" | "resolve" | "done"
    hRequest,     \* chartUrl, timeframe and tweetTimestamp of the query
    hResponse     \* the NextResponse returned

genVars == <<gPc, gKind, gTimeframe, gTweet, gNow, gPair, gPolicy, gOut>>

codexVars == <<cPc, cRequest, cEnv, cLocals, cSent, cResponse>>

resolverVars == <<rPc, rInput, rCtx, rFetches, rResult>>

tweetVars == <<tPc, tUrl, tNow, tFetches, tResult>>

pageVars == <<pPc, pInput, pClosure, isLoading, isGenerated, chartData,
              apiChartData, fetchedTweetData, pToast, pRuns>>

anchorVars == <<aPc, aInput, aResult>>

endpointVars == <<ePc, eInput, eData, eResponse>>

overlapVars == <<oRuns, oDone>>

historicalVars == <<hPc, hRequest, hResponse>>

vars == <<gPc, gKind, gTimeframe, gTweet, gNow, gPair, gPolicy, gOut,
          rPc, rInput, rCtx, rFetches, rResult,
          tPc, tUrl, tNow, tFetches, tResult,
          cPc, cRequest, cEnv, cLocals, cSent, cResponse,
          pPc, pInput, pClosure, isLoading, isGenerated, chartData,
          apiChartData, fetchedTweetData, pToast, pRuns,
          aPc, aInput, aResult, ePc, eInput, eData, eResponse, oRuns, oDone,
          hPc, hRequest, hResponse>>

-----------------------------------------------------------------------------
(* Instants, ISO strings                                                   *)

\* An absent tweetTimestamp argument (undefined).
NoTweet == <<"undefined", 0, 0>>

Instant(s, ms) == [s |-> s, ms |-> ms]

\* Date.prototype.toISOString: the instant at millisecond precision.
ToISOString(t) == <<"ISO", t.s, t.ms>>

\* new Date(isoString).getTime() for a string toISOString produced.
DateParse(iso) == Instant(iso[2], iso[3])

\* new Date(t.getTime() + k) for a whole number k of seconds.
AddSeconds(t, k) == Instant(t.s + k, t.ms)

\* a.getTime() - b.getTime() when both have the same millisecond remainder.
SecondsBetween(a, b) == b.s - a.s

Before(a, b) == a.s < b.s \/ (a.s = b.s /\ a.ms < b.ms)

-----------------------------------------------------------------------------
(* Interval policy tables (values in seconds)                              *)

ListedTimeframes == {"5m", "15m", "1h", "4h", "6h", "1d"}

\* TimeframeToken of the data model plus one token no table lists.
Timeframes == {"5m", "15m", "1h", "4h", "6h", "1d", "1w", "1m", "2h"}

\* A faulty getIntervalMs: the default branch returns the daily interval.
getIntervalMs_wrongDefault(timeframe) ==
    CASE timeframe = "5m"  -> 5 * 60
      [] timeframe = "15m" -> 15 * 60
      [] timeframe = "1h"  -> 60 * 60
      [] timeframe = "4h"  -> 4 * 60 * 60
      [] timeframe = "6h"  -> 6 * 60 * 60
      [] OTHER             -> 24 * 60 * 60

getIntervalMs(timeframe) ==
    CASE timeframe = "5m"  -> 5 * 60
      [] timeframe = "15m" -> 15 * 60
      [] timeframe = "1h"  -> 60 * 60
      [] timeframe = "4h"  -> 4 * 60 * 60
      [] timeframe = "6h"  -> 6 * 60 * 60
      [] timeframe = "1d"  -> 24 * 60 * 60
      [] OTHER             -> 60 * 60

\* A faulty getOptimalDataPoints: the hourly cap is lower than the window
\* divided by the interval.
getOptimalDataPoints_lowerCap(timeframe) ==
    CASE timeframe = "5m"  -> 24
      [] timeframe = "15m" -> 24
      [] timeframe = "1h"  -> 20
      [] timeframe = "4h"  -> 42
      [] timeframe = "6h"  -> 40
      [] timeframe = "1d"  -> 60
      [] OTHER             -> 24

getOptimalDataPoints(timeframe) ==
    CASE timeframe = "5m"  -> 24
      [] timeframe = "15m" -> 24
      [] timeframe = "1h"  -> 24
      [] timeframe = "4h"  -> 42
      [] timeframe = "6h"  -> 40
      [] timeframe = "1d"  -> 60
      [] OTHER             -> 24

\* A faulty getTimeframeInMs: the default window is two days.
getTimeframeInMs_longDefault(timeframe) ==
    CASE timeframe = "5m"  -> 2 * 60 * 60
      [] timeframe = "15m" -> 6 * 60 * 60
      [] timeframe = "1h"  -> 24 * 60 * 60
      [] timeframe = "4h"  -> 7 * 24 * 60 * 60
      [] timeframe = "6h"  -> 10 * 24 * 60 * 60
      [] timeframe = "1d"  -> 60 * 24 * 60 * 60
      [] OTHER             -> 48 * 60 * 60

getTimeframeInMs(timeframe) ==
    CASE timeframe = "5m"  -> 2 * 60 * 60
      [] timeframe = "15m" -> 6 * 60 * 60
      [] timeframe = "1h"  -> 24 * 60 * 60
      [] timeframe = "4h"  -> 7 * 24 * 60 * 60
      [] timeframe = "6h"  -> 10 * 24 * 60 * 60
      [] timeframe = "1d"  -> 60 * 24 * 60 * 60
      [] OTHER             -> 24 * 60 * 60

\* Math.ceil(a / b) for a >= 0, b > 0.
Ceil(a, b) == (a + b - 1) \div b

Min(a, b) == IF a <= b THEN a ELSE b

-----------------------------------------------------------------------------
(* JavaScript numbers by IEEE-754 class                                    *)

JsClass == {"NaN", "NegInf", "Neg", "Zero", "Pos", "PosInf"}

IsInf(a) == a \in {"NegInf", "PosInf"}

\* -1, 0, 1 for the sign of a non-NaN class.
SignOf(a) == CASE a \in {"NegInf", "Neg"} -> -1
               [] a = "Zero"              -> 0
               [] OTHER                   -> 1

Finite(sign) == CASE sign < 0 -> "Neg" [] sign = 0 -> "Zero" [] OTHER -> "Pos"

Infinite(sign) == IF sign < 0 THEN "NegInf" ELSE "PosInf"

\* The class of an integer.
ClassOf(n) == Finite(n)

\* a * b
MulC(a, b) ==
    IF a = "NaN" \/ b = "NaN" THEN {"NaN"}
    ELSE IF (IsInf(a) /\ b = "Zero") \/ (a = "Zero" /\ IsInf(b)) THEN {"NaN"}
    ELSE IF IsInf(a) \/ IsInf(b) THEN {Infinite(SignOf(a) * SignOf(b))}
    ELSE {Finite(SignOf(a) * SignOf(b))}

\* a / b  (a zero divisor is +0: it is a product of a +0 and positive factors)
DivC(a, b) ==
    IF a = "NaN" \/ b = "NaN" THEN {"NaN"}
    ELSE IF (a = "Zero" /\ b = "Zero") \/ (IsInf(a) /\ IsInf(b)) THEN {"NaN"}
    ELSE IF b = "Zero" THEN {Infinite(SignOf(a))}
    ELSE IF IsInf(b) THEN {"Zero"}
    ELSE IF IsInf(a) THEN {Infinite(SignOf(a) * SignOf(b))}
    ELSE {Finite(SignOf(a) * SignOf(b))}

\* a + b
AddC(a, b) ==
    IF a = "NaN" \/ b = "NaN" THEN {"NaN"}
    ELSE IF IsInf(a) /\ IsInf(b) THEN (IF a = b THEN {a} ELSE {"NaN"})
    ELSE IF IsInf(a) THEN {a}
    ELSE IF IsInf(b) THEN {b}
    ELSE IF a = "Zero" THEN {b}
    ELSE IF b = "Zero" THEN {a}
    ELSE IF a = b THEN {a}
    ELSE {"Neg", "Zero", "Pos"}

NegC(a) == CASE a = "NaN" -> "NaN"
             [] a = "NegInf" -> "PosInf"
             [] a = "PosInf" -> "NegInf"
             [] OTHER -> Finite(-SignOf(a))

\* a - b; two finite values of the same sign may differ either way.
SubC(a, b) ==
    IF a = "NaN" \/ b = "NaN" THEN {"NaN"}
    ELSE IF a = b /\ ~IsInf(a) /\ a # "Zero" THEN {"Neg", "Zero", "Pos"}
    ELSE AddC(a, NegC(b))

\* Math.abs(a)
AbsC(a) == CASE a = "NaN" -> {"NaN"}
             [] IsInf(a)  -> {"PosInf"}
             [] a = "Zero" -> {"Zero"}
             [] OTHER     -> {"Pos"}

Rank(a) == CASE a = "NegInf" -> 0 [] a = "Neg" -> 1 [] a = "Zero" -> 2
             [] a = "Pos" -> 3 [] OTHER -> 4

\* Math.max(a, b): NaN when either argument is NaN.  Used with a constant
\* floor (0 or 0.000001), so equal finite classes give that class.
MaxC(a, b) ==
    IF a = "NaN" \/ b = "NaN" THEN {"NaN"}
    ELSE IF Rank(a) >= Rank(b) THEN {a} ELSE {b}

\* The operators above applied to every class two values may have.
Mul(A, B) == UNION {MulC(a, b) : a \in A, b \in B}

Div(A, B) == UNION {DivC(a, b) : a \in A, b \in B}

Add(A, B) == UNION {AddC(a, b) : a \in A, b \in B}

Sub(A, B) == UNION {SubC(a, b) : a \in A, b \in B}

Abs(A) == UNION {AbsC(a) : a \in A}

MathMax(A, B) == UNION {MaxC(a, b) : a \in A, b \in B}

\* The classes of a value known to lie in [lo, hi] (integers, any unit).
IntervalClass(lo, hi) ==
    (IF lo < 0 THEN {"Neg"} ELSE {}) \cup
    (IF lo <= 0 /\ hi >= 0 THEN {"Zero"} ELSE {}) \cup
    (IF hi > 0 THEN {"Pos"} ELSE {})

-----------------------------------------------------------------------------
(* Synthetic history generators                                            *)

\* Math.random() in thousandths: 0 <= random < 1.
RandomRange == [lo |-> 0, hi |-> 999]

\* 0.01 dollars in millionths of a dollar.
CentMicro == 10000

\* const volatilityFactor = currentPrice < 0.01 ? 0.8 : 0.6   (thousandths)
VolatilityFactor(priceMicro) == IF priceMicro < CentMicro THEN 800 ELSE 600

\* 1 + randomWalk, randomWalk = (Math.random() - 0.5) * volatilityFactor
WalkFactor(priceMicro) ==
    IntervalClass(1000 + ((RandomRange.lo - 500) * VolatilityFactor(priceMicro)) \div 1000,
                  1000 + ((RandomRange.hi - 500) * VolatilityFactor(priceMicro)) \div 1000)

\* The spike (1 + random * 1.2), the crash (1 - random * 0.7), or neither.
EventFactor ==
    IntervalClass(1000 + (RandomRange.lo * 1200) \div 1000,
                  1000 + (RandomRange.hi * 1200) \div 1000)
    \cup IntervalClass(1000 - (RandomRange.hi * 700) \div 1000,
                       1000 - (RandomRange.lo * 700) \div 1000)
    \cup IntervalClass(1000, 1000)

\* 1 + Math.sin(..) * 0.4 + Math.cos(..) * 0.3, sine and cosine in [-1, 1].
ChaosFactor == IntervalClass(1000 - 400 - 300, 1000 + 400 + 300)

\* baseChangeRate in percent: which observed change anchors the trajectory.
BaseChangeRate(pair, timeframe) ==
    IF timeframe = "1d" THEN pair.priceChange.h24
    ELSE IF timeframe \in {"4h", "6h"} THEN pair.priceChange.h6
    ELSE pair.priceChange.h1

\* The sign of 1 - baseChangeRate * (1 - i / actualDataPoints), exactly:
\* (100 * actual - rate * (actual - i)) / (100 * actual), rate in percent.
TrendFactor(rate, i, actualDataPoints) ==
    {ClassOf(100 * actualDataPoints - rate * (actualDataPoints - i))}

\* finalPrice = currentPrice * priceMultiplier at sample i (0-based).
FinalPrice(pair, timeframe, i, actualDataPoints) ==
    Mul({ClassOf(pair.priceMicro)},
        Mul(Mul(Mul(TrendFactor(BaseChangeRate(pair, timeframe), i, actualDataPoints),
                    WalkFactor(pair.priceMicro)),
                EventFactor),
            ChaosFactor))

\* prices.push(Math.max(0.000001, finalPrice))
FlooredPrice(finalPrice) == MathMax({"Pos"}, finalPrice)

\* volumes.push(Math.max(0, finalVolume)), finalVolume = currentVolume *
\* baseVolumeVariation (0.3 + random * 1.4) * volumeMultiplier
\* (1 + priceVolatility * 5), priceVolatility =
\* Math.abs(finalPrice - currentPricePoint) / currentPricePoint.
SampleVolume(currentVolume, finalPrice, currentPricePoint) ==
    LET priceVolatility  == Div(Abs(Sub(finalPrice, currentPricePoint)), currentPricePoint)
        volumeMultiplier == Add({"Pos"}, Mul(priceVolatility, {"Pos"}))
        baseVolumeVariation ==
            IntervalClass(300 + (RandomRange.lo * 1400) \div 1000,
                          300 + (RandomRange.hi * 1400) \div 1000)
        finalVolume == Mul(Mul(currentVolume, baseVolumeVariation), volumeMultiplier)
    IN  MathMax({"Zero"}, finalVolume)

\* centerTime: the tweet's instant, or now.
CenterTime(tweetTimestamp, now) ==
    IF tweetTimestamp # NoTweet THEN DateParse(tweetTimestamp) ELSE now

\* A faulty StartTime: the window starts at the centre.
StartTime_atCenter(timeframe, tweetTimestamp, now) == CenterTime(tweetTimestamp, now)

\* startTime = new Date(centerTime.getTime() - timeframeMs / 2)
StartTime(timeframe, tweetTimestamp, now) ==
    AddSeconds(CenterTime(tweetTimestamp, now), -(getTimeframeInMs(timeframe) \div 2))

\* totalDataPoints = Math.ceil((endTime - startTime) / intervalMs)
TotalDataPoints(timeframe) ==
    Ceil(2 * (getTimeframeInMs(timeframe) \div 2), getIntervalMs(timeframe))

\* actualDataPoints = Math.min(totalDataPoints, maxDataPoints)
ActualDataPoints(timeframe) ==
    Min(TotalDataPoints(timeframe), getOptimalDataPoints(timeframe))

\* A faulty SampleTimestamps: the first sample is one interval after the
\* start of the window.
SampleTimestamps_oneBased(timeframe, tweetTimestamp, now, n) ==
    [k \in 1..n |->
        ToISOString(AddSeconds(StartTime(timeframe, tweetTimestamp, now),
                               k * getIntervalMs(timeframe)))]

\* The ISO strings pushed by a loop of n iterations.
SampleTimestamps(timeframe, tweetTimestamp, now, n) ==
    [k \in 1..n |->
        ToISOString(AddSeconds(StartTime(timeframe, tweetTimestamp, now),
                               (k - 1) * getIntervalMs(timeframe)))]

\* generateHistoricalDataFromPair(pair, timeframe, tweetTimestamp).  The loop
\* runs to totalDataPoints; timeProgress divides by actualDataPoints.
generateHistoricalDataFromPair(pair, timeframe, tweetTimestamp, now) ==
    LET n      == TotalDataPoints(timeframe)
        actual == ActualDataPoints(timeframe)
        final(k) == FinalPrice(pair, timeframe, k - 1, actual)
        \* currentPricePoint before iteration k: currentPrice, then the
        \* previous finalPrice (not the floored one).
        before(k) == IF k = 1 THEN {ClassOf(pair.priceMicro)} ELSE final(k - 1)
    IN  [prices     |-> [k \in 1..n |-> FlooredPrice(final(k))],
         volumes    |-> [k \in 1..n |->
                            SampleVolume({ClassOf(pair.volume.h24)}, final(k), before(k))],
         timestamps |-> SampleTimestamps(timeframe, tweetTimestamp, now, n)]

\* generateMockChartData(timeframe, tweetTimestamp): a walk from 0.00012345
\* with totalChange = (random - 0.5) * 0.15 + trend * 0.1, trend 0 or
\* (random - 0.5) * 0.1; volume (500000 + random * 2000000) * (1 + |totalChange| * 10).
generateMockChartData(timeframe, tweetTimestamp, now) ==
    LET n == ActualDataPoints(timeframe)
        trendLo == ((RandomRange.lo - 500) * 100) \div 1000
        trendHi == ((RandomRange.hi - 500) * 100) \div 1000
        changeLo == ((RandomRange.lo - 500) * 150) \div 1000 + (trendLo * 100) \div 1000
        changeHi == ((RandomRange.hi - 500) * 150) \div 1000 + (trendHi * 100) \div 1000 + 1
        step  == IntervalClass(1000 + changeLo, 1000 + changeHi)
        price == MathMax({"Pos"}, Mul({"Pos"}, step))
        volume == Mul(IntervalClass(500000, 500000 + 2000 * RandomRange.hi),
                      Add({"Pos"}, Mul(Abs(IntervalClass(changeLo, changeHi)), {"Pos"})))
    IN  [prices     |-> [k \in 1..n |-> price],
         volumes    |-> [k \in 1..n |-> volume],
         timestamps |-> SampleTimestamps(timeframe, tweetTimestamp, now, n)]

-----------------------------------------------------------------------------
(* Inputs                                                                  *)

\* Observed percentage changes: a crash beyond -100%, a small move, exactly
\* +100%, and beyond +100%.
PriceChanges == {-150, 5, 100, 250}

\* priceUsd in millionths of a dollar: a sub-cent price and a price above it.
PricesMicro == {5, 2500000}

\* 24h volume in dollars: a pair nobody traded, and a traded one.
Volumes24h == {0, 240000}

PairSnapshots ==
    [priceMicro  : PricesMicro,
     volume      : [h24 : Volumes24h],
     priceChange : [h1 : PriceChanges, h6 : PriceChanges, h24 : PriceChanges]]

NoPair == [priceMicro |-> 1, volume |-> [h24 |-> 0],
           priceChange |-> [h1 |-> 0, h6 |-> 0, h24 |-> 0]]

\* Seconds since the epoch of the sample instants.
BaseSeconds == 10000000

TweetInstants == {Instant(BaseSeconds, 0), Instant(BaseSeconds + 7 * 3600, 500)}

TweetTimestamps == {NoTweet} \cup {ToISOString(t) : t \in TweetInstants}

Nows == {Instant(BaseSeconds + 86400, 250)}

NoSeries == [prices |-> <<>>, volumes |-> <<>>, timestamps |-> <<>>]

NoPolicy == [intervalMs |-> 0, timeframeMs |-> 0, maxDataPoints |-> 0]

-----------------------------------------------------------------------------
(* GET /api/codex: helpers                                                 *)

\* Bars a bars payload may carry at most.
MaxBars == 3

\* String.prototype.length of the address strings used below.
StrLen(str) ==
    CASE str = "pumpCmXqMfrsAkQ5r49WcJnRayYRqmXz6ae8H7H9Dfn"  -> 43
      [] str = "7xKXtg2CW87d97TXJSDpbD5jBkheTqA83TZRuJosgAsU" -> 44
      [] str = "0x2260fac5e5542a773aa44fbcfedf7c193bc2c599"   -> 42
      [] str = "0xc02aaa39b223fe8d0a0e5c4f27ead9083c756cc2"   -> 42
      [] str = "0xd31a59c85ae9d8edefec411d448f90841571b89c"   -> 42
      [] str = "0x6982508145454ce325ddbe47a25d4ec3d2311933"   -> 42
      [] str = "not a url"                                    -> 9
      [] str = "0xabc"                                        -> 5
      [] OTHER                                                -> 0

\* displaySymbol.includes('PUMP')
IncludesPUMP(symbol) == symbol \in {"PUMP", "PUMPKIN"}

\* error.message.includes('Unauthorized') || error.message.includes('401')
Mentions401(message) == message \in {"HTTP 401: Unauthorized", "HTTP 401: "}

\* error.message.includes('Not Found') || error.message.includes('404')
Mentions404(message) == message \in {"HTTP 404: Not Found", "HTTP 404: "}

SolanaNetworkId == "1399811149"

NoSymbol == [present |-> FALSE, address |-> "", networkId |-> ""]

Symbol(address, networkId) ==
    [present |-> TRUE, address |-> address, networkId |-> networkId]

NoCodexSeries ==
    [symbol |-> <<>>, prices |-> <<>>, volumes |-> <<>>, timestamps |-> <<>>,
     currentPrice |-> 0, source |-> "", dataPoints |-> 0]

\* NextResponse.json(body, {status}); error / warning: the body has the field.
Reply(status, error, warning, series) ==
    [status |-> status, error |-> error, warning |-> warning, series |-> series]

NoResponse == Reply(0, "", FALSE, NoCodexSeries)

\* A faulty catch block: every caught error answers 500.
CatchReply_always500(message) ==
    Reply(500, "Failed to fetch data from Codex API", FALSE, NoCodexSeries)

\* The catch block of GET: status by what the message mentions.
CatchReply(message) ==
    IF Mentions401(message)
    THEN Reply(401, "Invalid Codex API key. Please check your CODEX_API_KEY in .env file.",
               FALSE, NoCodexSeries)
    ELSE IF Mentions404(message)
    THEN Reply(404, "Symbol not found. Please check the symbol format (tokenAddress:networkId).",
               FALSE, NoCodexSeries)
    ELSE Reply(500, "Failed to fetch data from Codex API", FALSE, NoCodexSeries)

\* calculateTimeRange(timeframe, tweetTimestamp): from, to in Unix seconds.
ResolutionMap(timeframe) ==
    CASE timeframe = "5m"  -> [primary |-> "1",   fallback |-> "5"]
      [] timeframe = "15m" -> [primary |-> "1",   fallback |-> "5"]
      [] timeframe = "1h"  -> [primary |-> "5",   fallback |-> "15"]
      [] timeframe = "4h"  -> [primary |-> "15",  fallback |-> "60"]
      [] timeframe = "6h"  -> [primary |-> "15",  fallback |-> "60"]
      [] timeframe = "1d"  -> [primary |-> "60",  fallback |-> "240"]
      [] timeframe = "1w"  -> [primary |-> "240", fallback |-> "1D"]
      [] timeframe = "1m"  -> [primary |-> "1D",  fallback |-> "7D"]
      [] OTHER             -> [primary |-> "60",  fallback |-> "240"]

\* timeRanges of the centered branch, in seconds.
CenteredRange(timeframe) ==
    CASE timeframe = "5m"  -> 3 * 60 * 60
      [] timeframe = "15m" -> 8 * 60 * 60
      [] timeframe = "1h"  -> 16 * 60 * 60
      [] timeframe = "4h"  -> 5 * 24 * 60 * 60
      [] timeframe = "6h"  -> 8 * 24 * 60 * 60
      [] timeframe = "1d"  -> 30 * 24 * 60 * 60
      [] timeframe = "1w"  -> 90 * 24 * 60 * 60
      [] OTHER             -> 16 * 60 * 60

\* timeRanges of the recent branch, in seconds.
RecentRange(timeframe) ==
    CASE timeframe = "5m"  -> 4 * 60 * 60
      [] timeframe = "15m" -> 24 * 60 * 60
      [] timeframe = "1h"  -> 7 * 24 * 60 * 60
      [] timeframe = "4h"  -> 30 * 24 * 60 * 60
      [] timeframe = "6h"  -> 30 * 24 * 60 * 60
      [] timeframe = "1d"  -> 90 * 24 * 60 * 60
      [] timeframe = "1w"  -> 365 * 24 * 60 * 60
      [] timeframe = "1m"  -> 365 * 24 * 60 * 60
      [] OTHER             -> 24 * 60 * 60

\* A faulty calculateTimeRange: the window starts at the tweet instead of
\* lying around it.
calculateTimeRange_startsAtTweet(timeframe, tweetTimestamp, now) ==
    LET tweetTime == IF tweetTimestamp # NoTweet THEN DateParse(tweetTimestamp) ELSE now
        config    == ResolutionMap(timeframe)
        span ==
            IF tweetTimestamp # NoTweet
            THEN IF timeframe = "1m"
                 THEN [from |-> tweetTime.s - 60 * 24 * 60 * 60, to |-> now.s]
                 ELSE [from |-> tweetTime.s,
                       to   |-> tweetTime.s + CenteredRange(timeframe)]
            ELSE [from |-> now.s - RecentRange(timeframe), to |-> now.s]
    IN  [from |-> span.from, to |-> span.to,
         resolution |-> config.primary, fallback |-> config.fallback]

\* Math.floor(x / 1000) of an instant is its whole seconds; the ranges and
\* their halves are whole seconds.
calculateTimeRange(timeframe, tweetTimestamp, now) ==
    LET tweetTime == IF tweetTimestamp # NoTweet THEN DateParse(tweetTimestamp) ELSE now
        config    == ResolutionMap(timeframe)
        span ==
            IF tweetTimestamp # NoTweet
            THEN IF timeframe = "1m"
                 THEN [from |-> tweetTime.s - 60 * 24 * 60 * 60, to |-> now.s]
                 ELSE [from |-> tweetTime.s - CenteredRange(timeframe) \div 2,
                       to   |-> tweetTime.s + CenteredRange(timeframe) \div 2]
            ELSE [from |-> now.s - RecentRange(timeframe), to |-> now.s]
    IN  [from |-> span.from, to |-> span.to,
         resolution |-> config.primary, fallback |-> config.fallback]

\* One upstream request, as logged in cSent.
TokenInfoRequest(symbol) ==
    [kind |-> "tokenInfo", symbol |-> symbol, symbolType |-> "", from |-> 0, to |-> 0,
     resolution |-> "", countback |-> 0]

DexScreenerRequest(address) ==
    [kind |-> "dexscreener", symbol |-> Symbol(address, ""), symbolType |-> "",
     from |-> 0, to |-> 0, resolution |-> "", countback |-> 0]

\* executeCodexQuery(GET_BARS_QUERY, variables, apiKey)
BarsRequest(variables) ==
    [kind |-> "bars", symbol |-> variables.symbol, symbolType |-> variables.symbolType,
     from |-> variables.from, to |-> variables.to,
     resolution |-> variables.resolution, countback |-> variables.countback]

\* What one executeCodexQuery call may come back with.
NoData == [kind |-> "no_data", message |-> "", o |-> <<>>, h |-> <<>>, c |-> <<>>,
           volume |-> <<>>, t |-> <<>>]

Thrown(message) == [kind |-> "throw", message |-> message, o |-> <<>>, h |-> <<>>,
                    c |-> <<>>, volume |-> <<>>, t |-> <<>>]

\* A BarsResponse with s = 'ok' and n opens; the first high is 0 (falsy), the
\* timestamps start at t0 and may be fewer than the opens.
Bars(n, t0, tLen, volLen) ==
    [kind |-> "ok", message |-> "",
     o |-> [k \in 1..n |-> 100 + k],
     h |-> [k \in 1..n |-> IF k = 1 THEN 0 ELSE 120 + k],
     c |-> [k \in 1..n |-> 110 + k],
     volume |-> [k \in 1..volLen |-> 7 * k],
     t |-> [k \in 1..tLen |-> t0 + 300 * (k - 1)]]

\* First bar well before, and well after, every sample tweet.
BarStarts == {BaseSeconds - 86400, BaseSeconds + 86400}

BarsOutcomes ==
    {NoData}
    \cup {Thrown(m) : m \in {"HTTP 401: Unauthorized", "HTTP 404: Not Found",
                             "fetch failed"}}
    \cup {Bars(n, t0, n, n) : n \in 1..MaxBars, t0 \in BarStarts}
    \cup {Bars(n, t0, n - 1, 0) : n \in 1..MaxBars, t0 \in BarStarts}

\* barsData && barsData.s === 'ok' && barsData.o && barsData.o.length > 0
HasBars(barsData) == barsData.kind = "ok" /\ Len(barsData.o) > 0

\* barsData.h[i] || barsData.c[i] || barsData.o[i] || 0
HighPrice(barsData, i) ==
    IF barsData.h[i] # 0 THEN barsData.h[i]
    ELSE IF barsData.c[i] # 0 THEN barsData.c[i]
    ELSE barsData.o[i]

\* A faulty formatCodexResponse: a bar without a timestamp is skipped in
\* `timestamps` instead of raising.
formatCodexResponse_skipsMissingTimes(barsData, displaySymbol) ==
    LET dataLength == Len(barsData.o)
    IN  [threw |-> FALSE, message |-> "",
         series |->
           [symbol       |-> <<displaySymbol, "/USD">>,
            prices       |-> [i \in 1..dataLength |-> HighPrice(barsData, i)],
            volumes      |-> [i \in 1..dataLength |->
                                IF i <= Len(barsData.volume) THEN barsData.volume[i] ELSE 0],
            timestamps   |-> [i \in 1..Len(barsData.t) |->
                                ToISOString(Instant(barsData.t[i], 0))],
            currentPrice |-> HighPrice(barsData, dataLength),
            source       |-> "codex",
            dataPoints   |-> dataLength]]

\* formatCodexResponse(barsData, displaySymbol, ...): the series, or the
\* RangeError of new Date(NaN).toISOString() when a bar has no timestamp.
formatCodexResponse(barsData, displaySymbol) ==
    LET dataLength == Len(barsData.o)
        prices == [i \in 1..dataLength |-> HighPrice(barsData, i)]
    IN  IF ~HasBars(barsData)
        THEN [threw |-> FALSE, message |-> "",
              series |-> [NoCodexSeries EXCEPT !.symbol = <<displaySymbol, "/USD">>,
                                             !.source = "codex"]]
        ELSE IF Len(barsData.t) < dataLength
        THEN [threw |-> TRUE, message |-> "Invalid time value", series |-> NoCodexSeries]
        ELSE [threw |-> FALSE, message |-> "",
              series |->
                [symbol       |-> <<displaySymbol, "/USD">>,
                 prices       |-> prices,
                 volumes      |-> [i \in 1..dataLength |->
                                     IF i <= Len(barsData.volume) THEN barsData.volume[i] ELSE 0],
                 timestamps   |-> [i \in 1..dataLength |->
                                     ToISOString(Instant(barsData.t[i], 0))],
                 currentPrice |-> prices[dataLength],
                 source       |-> "codex",
                 dataPoints   |-> dataLength]]

\* What a return statement or the catch block produces: the response, and
\* the message of the error that was caught ("" when none was).
Outcome(reply, thrown) == [reply |-> reply, thrown |-> thrown]

\* return NextResponse.json(formatCodexResponse(...)), inside the try block.
FormatReply(barsData, displaySymbol) ==
    LET f == formatCodexResponse(barsData, displaySymbol)
    IN  IF f.threw THEN Outcome(CatchReply(f.message), f.message)
        ELSE Outcome(Reply(200, "", FALSE, f.series), "")

\* tweetTimestamp && barsData.t && barsData.t.length > 0 &&
\* new Date(tweetTimestamp).getTime() / 1000 < barsData.t[0]
TweetPredatesData(tweetTimestamp, barsData) ==
    /\ tweetTimestamp # NoTweet
    /\ Len(barsData.t) > 0
    /\ Before(DateParse(tweetTimestamp), Instant(barsData.t[1], 0))

TweetPredatesReply ==
    Reply(422, "Tweet was posted before chart data exists", TRUE, NoCodexSeries)

\* The guard of the main and symbolType-retry paths (PUMP is let through) and
\* of the recent-data and fallback-resolution paths (it is not).
GuardedReply(tweetTimestamp, barsData, displaySymbol, pumpBypass) ==
    IF TweetPredatesData(tweetTimestamp, barsData)
       /\ ~(pumpBypass /\ IncludesPUMP(displaySymbol))
    THEN Outcome(TweetPredatesReply, "")
    ELSE FormatReply(barsData, displaySymbol)

-----------------------------------------------------------------------------
(* GET /api/codex: the handler, one action per await                       *)

ApiKeys == {"", "your-codex-api-key-here", "sk-live"}

\* tokenInfo?.symbol ("" when getTokenInfo found nothing or failed).
TokenInfoSymbols == {"", "WBTC"}

\* pair.baseToken?.symbol of the DexScreener lookup ("" when it failed).
FallbackSymbols == {"", "PUMP"}

NoVariables == [symbol |-> NoSymbol, symbolType |-> "", from |-> 0, to |-> 0,
                resolution |-> "", countback |-> 0]

NoLocals == [tokenSymbol |-> "", displaySymbol |-> "", fallback |-> "",
             variables |-> NoVariables, barsData |-> NoData, thrown |-> "",
             last |-> ""]

NoRequest == [symbol |-> NoSymbol, timeframe |-> "1h", tweetTimestamp |-> NoTweet]

NoEnv == [apiKey |-> "", now |-> Instant(0, 0)]

CodexIdle ==
    /\ cPc = "idle" /\ cRequest = NoRequest /\ cEnv = NoEnv
    /\ cLocals = NoLocals /\ cSent = <<>> /\ cResponse = NoResponse

\* The handler returns `outcome` after the await at `pc` settled with barsData.
Settle(pc, barsData, outcome) ==
    /\ cResponse' = outcome.reply
    /\ cLocals' = [cLocals EXCEPT !.barsData = barsData, !.thrown = outcome.thrown,
                                  !.last = pc]
    /\ cPc' = "done"
    /\ UNCHANGED cSent

\* executeCodexQuery threw at `pc`: the catch block answers.
Caught(pc, message) ==
    Settle(pc, cLocals.barsData, Outcome(CatchReply(message), message))

\* The await at `pc` found nothing: `variables` is sent again as `next`.
TryNext(pc, nextPc, barsData, variables, next) ==
    /\ cLocals' = [cLocals EXCEPT !.barsData = barsData, !.variables = variables,
                                  !.last = pc]
    /\ cSent' = Append(cSent, BarsRequest(next))
    /\ cPc' = nextPc
    /\ UNCHANGED cResponse

\* A faulty RouteStart: the API key is not looked at.
RouteStart_noKeyCheck ==
    /\ cPc = "start"
    /\ IF ~cRequest.symbol.present
       THEN /\ cResponse' = Reply(400, "Symbol parameter is required", FALSE, NoCodexSeries)
            /\ cPc' = "done"
            /\ UNCHANGED <<cLocals, cSent>>
       ELSE /\ cSent' = Append(cSent, TokenInfoRequest(cRequest.symbol))
            /\ cPc' = "tokenInfo"
            /\ UNCHANGED <<cLocals, cResponse>>
    /\ UNCHANGED <<cRequest, cEnv>>
    /\ UNCHANGED <<genVars, resolverVars, tweetVars, pageVars, anchorVars, endpointVars, overlapVars, historicalVars>>

\* Lines 100-124: the two validations, then the first upstream call.
RouteStart ==
    /\ cPc = "start"
    /\ IF ~cRequest.symbol.present
       THEN /\ cResponse' = Reply(400, "Symbol parameter is required", FALSE, NoCodexSeries)
            /\ cPc' = "done"
            /\ UNCHANGED <<cLocals, cSent>>
       ELSE IF cEnv.apiKey = "" \/ cEnv.apiKey = "your-codex-api-key-here"
       THEN /\ cResponse' = Reply(500, "Codex API key not configured. Please add CODEX_API_KEY to your .env file.",
                                  FALSE, NoCodexSeries)
            /\ cPc' = "done"
            /\ UNCHANGED <<cLocals, cSent>>
       ELSE /\ cSent' = Append(cSent, TokenInfoRequest(cRequest.symbol))
            /\ cPc' = "tokenInfo"
            /\ UNCHANGED <<cLocals, cResponse>>
    /\ UNCHANGED <<cRequest, cEnv>>
    /\ UNCHANGED <<genVars, resolverVars, tweetVars, pageVars, anchorVars, endpointVars, overlapVars, historicalVars>>

\* Lines 122-141: getTokenInfo settles (it never rejects into GET), then the
\* DexScreener lookup is issued.
RouteTokenInfo ==
    /\ cPc = "tokenInfo"
    /\ \E tokenSymbol \in TokenInfoSymbols :
         cLocals' = [cLocals EXCEPT !.tokenSymbol = tokenSymbol]
    /\ cSent' = Append(cSent, DexScreenerRequest(cRequest.symbol.address))
    /\ cPc' = "dexInfo"
    /\ UNCHANGED <<cRequest, cEnv, cResponse>>
    /\ UNCHANGED <<genVars, resolverVars, tweetVars, pageVars, anchorVars, endpointVars, overlapVars, historicalVars>>

\* Lines 143-197: the DexScreener lookup settles, the query variables are
\* built and the main bars query is issued.
RouteDexInfo ==
    /\ cPc = "dexInfo"
    /\ \E fallbackSymbol \in FallbackSymbols :
         LET displaySymbol ==
                 IF cLocals.tokenSymbol # "" THEN cLocals.tokenSymbol
                 ELSE IF fallbackSymbol # "" THEN fallbackSymbol
                 ELSE "TOKEN"
             range == calculateTimeRange(cRequest.timeframe, cRequest.tweetTimestamp, cEnv.now)
             isProbablyPairAddress == StrLen(cRequest.symbol.address) > 30
             variables ==
                 [symbol     |-> cRequest.symbol,
                  symbolType |-> IF isProbablyPairAddress THEN "POOL" ELSE "TOKEN",
                  from       |-> range.from,
                  to         |-> range.to,
                  resolution |-> range.resolution,
                  countback  |-> 0]
         IN  /\ cLocals' = [cLocals EXCEPT !.displaySymbol = displaySymbol,
                                           !.fallback = range.fallback,
                                           !.variables = variables]
             /\ cSent' = Append(cSent, BarsRequest(variables))
    /\ cPc' = "bars1"
    /\ UNCHANGED <<cRequest, cEnv, cResponse>>
    /\ UNCHANGED <<genVars, resolverVars, tweetVars, pageVars, anchorVars, endpointVars, overlapVars, historicalVars>>

\* A faulty FlipSymbolType: the retry goes out with the symbolType it had.
FlipSymbolType_keeps(variables) == variables

\* variables.symbolType = fallbackSymbolType
FlipSymbolType(variables) ==
    [variables EXCEPT !.symbolType = IF variables.symbolType = "POOL"
                                     THEN "TOKEN" ELSE "POOL"]

\* Lines 197-209 and 356-385: the main query settles.
RouteMainBars ==
    /\ cPc = "bars1"
    /\ \E barsData \in BarsOutcomes :
         IF barsData.kind = "throw"
         THEN Caught("bars1", barsData.message)
         ELSE IF ~HasBars(barsData)
         THEN TryNext("bars1", "bars2", barsData, FlipSymbolType(cLocals.variables),
                      FlipSymbolType(cLocals.variables))
         ELSE Settle("bars1", barsData,
                     GuardedReply(cRequest.tweetTimestamp, barsData,
                                  cLocals.displaySymbol, TRUE))
    /\ UNCHANGED <<cRequest, cEnv>>
    /\ UNCHANGED <<genVars, resolverVars, tweetVars, pageVars, anchorVars, endpointVars, overlapVars, historicalVars>>

\* A faulty RecentDataVariables: the recent-data request goes back to the
\* symbolType of the first request.
RecentDataVariables_originalType(variables, now) ==
    [variables EXCEPT !.from = 0, !.to = now.s, !.countback = 1500,
                      !.symbolType = IF variables.symbolType = "POOL"
                                     THEN "TOKEN" ELSE "POOL"]

\* recentDataVariables = { ...variables, from: 0, to: now, countback: 1500 }
RecentDataVariables(variables, now) ==
    [variables EXCEPT !.from = 0, !.to = now.s, !.countback = 1500]

\* Lines 209-223 and 326-353: the symbolType retry settles.
RouteRetryBars ==
    /\ cPc = "bars2"
    /\ \E retryBarsData \in BarsOutcomes :
         IF retryBarsData.kind = "throw"
         THEN Caught("bars2", retryBarsData.message)
         ELSE IF ~HasBars(retryBarsData)
         THEN TryNext("bars2", "bars3", retryBarsData, cLocals.variables,
                      RecentDataVariables(cLocals.variables, cEnv.now))
         ELSE Settle("bars2", retryBarsData,
                     GuardedReply(cRequest.tweetTimestamp, retryBarsData,
                                  cLocals.displaySymbol, TRUE))
    /\ UNCHANGED <<cRequest, cEnv>>
    /\ UNCHANGED <<genVars, resolverVars, tweetVars, pageVars, anchorVars, endpointVars, overlapVars, historicalVars>>

\* fallbackVariables = { ...variables, resolution: resolutionConfig.fallback }
FallbackVariables(variables, fallback) == [variables EXCEPT !.resolution = fallback]

\* Lines 223-255: the recent-data query settles.
RouteRecentBars ==
    /\ cPc = "bars3"
    /\ \E recentBarsData \in BarsOutcomes :
         IF recentBarsData.kind = "throw"
         THEN Caught("bars3", recentBarsData.message)
         ELSE IF HasBars(recentBarsData)
         THEN Settle("bars3", recentBarsData,
                     GuardedReply(cRequest.tweetTimestamp, recentBarsData,
                                  cLocals.displaySymbol, FALSE))
         ELSE TryNext("bars3", "bars4", recentBarsData, cLocals.variables,
                      FallbackVariables(cLocals.variables, cLocals.fallback))
    /\ UNCHANGED <<cRequest, cEnv>>
    /\ UNCHANGED <<genVars, resolverVars, tweetVars, pageVars, anchorVars, endpointVars, overlapVars, historicalVars>>

\* const solanaNetworkIds = ['101', '900'], by position of the await.
AltNetworkId(pc) == IF pc = "bars5" THEN "101" ELSE "900"

NoDataReply ==
    Reply(404, "No historical data available for this token/pair in Codex database.",
          FALSE, NoCodexSeries)

\* testVariables = { ...variables, symbol: testSymbol }
TestVariables(variables, networkId) ==
    [variables EXCEPT !.symbol = Symbol(variables.symbol.address, networkId)]

\* Lines 255-303 and 313-323: the fallback-resolution query settles.
RouteFallbackBars ==
    /\ cPc = "bars4"
    /\ \E fallbackBarsData \in BarsOutcomes :
         IF fallbackBarsData.kind = "throw"
         THEN Caught("bars4", fallbackBarsData.message)
         ELSE IF HasBars(fallbackBarsData)
         THEN Settle("bars4", fallbackBarsData,
                     GuardedReply(cRequest.tweetTimestamp, fallbackBarsData,
                                  cLocals.displaySymbol, FALSE))
         ELSE IF cRequest.symbol.networkId = SolanaNetworkId
         THEN TryNext("bars4", "bars5", fallbackBarsData, cLocals.variables,
                      TestVariables(cLocals.variables, AltNetworkId("bars5")))
         ELSE Settle("bars4", fallbackBarsData, Outcome(NoDataReply, ""))
    /\ UNCHANGED <<cRequest, cEnv>>
    /\ UNCHANGED <<genVars, resolverVars, tweetVars, pageVars, anchorVars, endpointVars, overlapVars, historicalVars>>

\* Lines 296-323: one query of the alternative-network loop settles; a
\* series found here is returned without the timestamp guard.
RouteAltNetworkBars ==
    /\ cPc \in {"bars5", "bars6"}
    /\ \E testBarsData \in BarsOutcomes :
         IF testBarsData.kind = "throw"
         THEN Caught(cPc, testBarsData.message)
         ELSE IF HasBars(testBarsData)
         THEN Settle(cPc, testBarsData, FormatReply(testBarsData, cLocals.displaySymbol))
         ELSE IF cPc = "bars5"
         THEN TryNext("bars5", "bars6", testBarsData, cLocals.variables,
                      TestVariables(cLocals.variables, AltNetworkId("bars6")))
         ELSE Settle("bars6", testBarsData, Outcome(NoDataReply, ""))
    /\ UNCHANGED <<cRequest, cEnv>>
    /\ UNCHANGED <<genVars, resolverVars, tweetVars, pageVars, anchorVars, endpointVars, overlapVars, historicalVars>>

RouteStep ==
    \/ RouteStart
    \/ RouteTokenInfo
    \/ RouteDexInfo
    \/ RouteMainBars
    \/ RouteRetryBars
    \/ RouteRecentBars
    \/ RouteFallbackBars
    \/ RouteAltNetworkBars

-----------------------------------------------------------------------------
(* Market data resolver: strings and lookups                               *)

\* A string is held as the list of its "/"-separated pieces, so that
\* input.split("/") is the list itself; strings that are not URLs carry no "/".
PumpAddress == "pumpCmXqMfrsAkQ5r49WcJnRayYRqmXz6ae8H7H9Dfn"

DexUrl(chain, address) == <<"https:", "", "dexscreener.com", chain, address>>

\* String.prototype.toLowerCase, piece by piece.
LowerPiece(piece) ==
    CASE piece = "Bitcoin"  -> "bitcoin"
      [] piece = "SOLANA"   -> "solana"
      [] piece = PumpAddress -> "pumpcmxqmfrsakq5r49wcjnrayyrqmxz6ae8h7h9dfn"
      [] piece = "7xKXtg2CW87d97TXJSDpbD5jBkheTqA83TZRuJosgAsU"
                            -> "7xkxtg2cw87d97txjsdpbd5jbkhetqa83tzrujosgasu"
      [] OTHER              -> piece

toLowerCase(str) == [i \in 1..Len(str) |-> LowerPiece(str[i])]

\* A JavaScript value that is a string, undefined, or some other object.
Str(value) == [kind |-> "string", value |-> value]

Undefined == [kind |-> "undefined", value |-> <<>>]

NonString == [kind |-> "object", value |-> <<>>]

\* popularTokenMap[key]: an own property, else what the object literal
\* inherits from Object.prototype, else undefined.
popularTokenMap(key) ==
    CASE key = <<"bitcoin">>
           -> Str(DexUrl("ethereum", "0x2260fac5e5542a773aa44fbcfedf7c193bc2c599"))
      [] key = <<"ethereum">>
           -> Str(DexUrl("ethereum", "0xc02aaa39b223fe8d0a0e5c4f27ead9083c756cc2"))
      [] key = <<"solana">>
           -> Str(DexUrl("ethereum", "0xd31a59c85ae9d8edefec411d448f90841571b89c"))
      [] key \in {<<"constructor">>, <<"__proto__">>}
           -> NonString
      [] OTHER -> Undefined

\* let actualUrl = chartUrl; if (popularTokenMap[lower]) actualUrl = popularTokenMap[lower]
ActualUrl(chartUrl) ==
    LET mapped == popularTokenMap(toLowerCase(chartUrl))
    IN  IF mapped.kind # "undefined" THEN mapped ELSE Str(chartUrl)

\* popularTokenMap[chartUrl.toLowerCase()] ? true : false
IsPopularToken(chartUrl) == popularTokenMap(toLowerCase(chartUrl)).kind # "undefined"

\* input.startsWith('http')
StartsWithHttp(str) == Len(str) >= 1 /\ str[1] \in {"https:", "http:"}

\* input.startsWith('0x')
StartsWith0x(piece) ==
    piece \in {"0x2260fac5e5542a773aa44fbcfedf7c193bc2c599",
               "0xc02aaa39b223fe8d0a0e5c4f27ead9083c756cc2",
               "0xd31a59c85ae9d8edefec411d448f90841571b89c",
               "0x6982508145454ce325ddbe47a25d4ec3d2311933",
               "0xabc"}

\* extractTokenFromUrl(input); "" stands for an undefined chain or address.
\* Calling it on a value that is not a string raises a TypeError.
extractTokenFromUrl(input) ==
    IF input.kind # "string"
    THEN [threw |-> TRUE, chain |-> "", address |-> "", isPairAddress |-> FALSE]
    ELSE IF StartsWithHttp(input.value)
    THEN LET urlParts == input.value
             chain    == IF Len(urlParts) >= 4 THEN urlParts[4] ELSE ""
             address  == IF Len(urlParts) >= 5 THEN urlParts[5] ELSE ""
         IN  [threw |-> FALSE,
              chain |-> IF chain = "eth" THEN "ethereum" ELSE chain,
              address |-> address,
              isPairAddress |-> address # "" /\ StrLen(address) > 10]
    ELSE LET address == input.value[1]
         IN  [threw |-> FALSE,
              chain |-> IF StartsWith0x(address) /\ StrLen(address) = 42
                        THEN "ethereum" ELSE "solana",
              address |-> address,
              isPairAddress |-> FALSE]

\* networkMap[tokenInfo.chain] || '1'
networkMap(chain) ==
    CASE chain = "ethereum" -> "1"
      [] chain = "solana"   -> SolanaNetworkId
      [] chain = "bsc"      -> "56"
      [] chain = "polygon"  -> "137"
      [] chain = "arbitrum" -> "42161"
      [] chain = "optimism" -> "10"
      [] OTHER              -> "1"

\* The apiEndpoints of fetchChartData: two, and a chain-specific third.
EndpointCount(chain) == IF chain \in {"solana", "ethereum"} THEN 3 ELSE 2

\* What one DexScreener fetch may come back with.
DexOutcome(kind, pair) == [kind |-> kind, pair |-> pair]

\* Snapshots the resolver is fed: an ordinary one, and an untraded sub-cent
\* token that doubled in the last hour.
ResolverPairs ==
    {[priceMicro |-> 2500000, volume |-> [h24 |-> 240000],
      priceChange |-> [h1 |-> 5, h6 |-> 5, h24 |-> 5]],
     [priceMicro |-> 5, volume |-> [h24 |-> 0],
      priceChange |-> [h1 |-> 100, h6 |-> 100, h24 |-> 100]]}

\* rejected promise; response.ok false; ok without pairs; ok with a pair that
\* lacks the fields the generator reads; ok with a full pair.
DexOutcomes ==
    {DexOutcome(k, NoPair) : k \in {"reject", "notOk", "noPairs", "malformed"}}
    \cup {DexOutcome("pairs", p) : p \in ResolverPairs}

ChartUrls ==
    {DexUrl("solana", "7xKXtg2CW87d97TXJSDpbD5jBkheTqA83TZRuJosgAsU"),
     DexUrl("eth", "0x6982508145454ce325ddbe47a25d4ec3d2311933"),
     DexUrl("bsc", "0xabc"),
     <<"https:", "", "dexscreener.com">>,
     <<PumpAddress>>,
     <<"0x6982508145454ce325ddbe47a25d4ec3d2311933">>,
     <<"Bitcoin">>,
     <<"not a url">>,
     <<"">>,
     <<"constructor">>}

ResolverTimeframes == {"5m", "1d", "2h"}

ResolverTweets == {NoTweet, ToISOString(Instant(BaseSeconds, 0))}

NoCtx == [actualUrl |-> Undefined, symbol |-> NoSymbol, attempt |-> "",
          dexUrl |-> Undefined, dexTweet |-> NoTweet, tag |-> "",
          unavailable |-> FALSE, chain |-> "", endpoint |-> 0]

NoInput == [chartUrl |-> <<>>, timeframe |-> "1h", tweetTimestamp |-> NoTweet]

Pending ==
    [outcome |-> "pending", source |-> "", generated |-> "none",
     prices |-> <<>>, volumes |-> <<>>, timestamps |-> <<>>, dataPoints |-> 0,
     isPopularToken |-> FALSE, historicalDataUnavailable |-> FALSE,
     currentPrice |-> <<"none">>, marketCap |-> <<"none">>]

ResolverIdle ==
    /\ rPc = "idle" /\ rInput = NoInput /\ rCtx = NoCtx
    /\ rFetches = <<>> /\ rResult = Pending

-----------------------------------------------------------------------------
(* Market data resolver: fetchChartDataWithHistory, one action per await    *)

\* fetch(`/api/codex?...`) from fetchCodexChartData.
CodexCall(symbol, timeframe, tweetTimestamp) ==
    /\ cPc' = "start"
    /\ cRequest' = [symbol |-> symbol, timeframe |-> timeframe,
                    tweetTimestamp |-> tweetTimestamp]
    /\ cLocals' = NoLocals /\ cSent' = <<>> /\ cResponse' = NoResponse
    /\ UNCHANGED cEnv

\* The request is over: the handler holds nothing of it any more, and the
\* caller is left with the Response.
CodexRelease ==
    /\ cPc' = "idle" /\ cRequest' = NoRequest
    /\ cLocals' = NoLocals /\ cSent' = <<>>
    /\ IF cPc = "done" THEN UNCHANGED cResponse ELSE cResponse' = NoResponse
    /\ UNCHANGED cEnv

\* fetchChartData(url, timeframe, tweet) up to its first await: a URL without
\* chain or address throws inside the try and goes to getFallbackRealData.
FetchChartDataCall(url, tweet, tag, unavailable) ==
    LET tokenInfo == extractTokenFromUrl(url)
        ctx == [rCtx EXCEPT !.dexUrl = url, !.dexTweet = tweet, !.tag = tag,
                            !.unavailable = unavailable, !.chain = tokenInfo.chain]
    IN  IF tokenInfo.threw \/ tokenInfo.address = "" \/ tokenInfo.chain = ""
        THEN /\ rPc' = "pepe"
             /\ rCtx' = [ctx EXCEPT !.endpoint = 0]
             /\ rFetches' = Append(rFetches, "pepe")
        ELSE /\ rPc' = "dex"
             /\ rCtx' = [ctx EXCEPT !.endpoint = 1]
             /\ rFetches' = Append(rFetches, "dex")

\* Line 311: mockSupply, 420690000000000, as 42069 * 10^10.
mockSupply == [mantissa |-> 42069, exponent |-> 10]

\* A faulty GeneratedQuote: the mock result quotes the first price.
GeneratedQuote_firstPrice(generated, series) ==
    IF generated = "mock"
    THEN [currentPrice |-> <<"prices", 1>>,
          marketCap    |-> <<"times", <<"prices", 1>>, mockSupply>>]
    ELSE [currentPrice |-> <<"priceUsd">>, marketCap |-> <<"fdv">>]

\* currentPrice and marketCap of a fetchChartData result, as terms over the
\* series and the snapshot: the mock result takes the last price of the
\* series and that price times mockSupply (lines 309-319), a snapshot
\* result parseFloat(pair.priceUsd) and pair.fdv (lines 296-297, 400-402).
GeneratedQuote(generated, series) ==
    IF generated = "mock"
    THEN [currentPrice |-> <<"prices", Len(series.prices)>>,
          marketCap    |-> <<"times", <<"prices", Len(series.prices)>>, mockSupply>>]
    ELSE [currentPrice |-> <<"priceUsd">>, marketCap |-> <<"fdv">>]

\* A faulty ReturnGenerated: the fetchChartData result is returned as it is,
\* without a source.
ReturnGenerated_untagged(generated, series) ==
    /\ rResult' = [outcome |-> "returned", source |-> "", generated |-> generated,
                   prices |-> series.prices, volumes |-> series.volumes,
                   timestamps |-> series.timestamps, dataPoints |-> -1,
                   isPopularToken |-> FALSE, historicalDataUnavailable |-> FALSE,
                   currentPrice |-> GeneratedQuote(generated, series).currentPrice,
                   marketCap |-> GeneratedQuote(generated, series).marketCap]
    /\ rPc' = "done"

\* return { ...dexScreenerData, source: tag, isPopularToken, ... }
ReturnGenerated(generated, series) ==
    /\ rResult' = [outcome |-> "returned", source |-> rCtx.tag, generated |-> generated,
                   prices |-> series.prices, volumes |-> series.volumes,
                   timestamps |-> series.timestamps, dataPoints |-> -1,
                   isPopularToken |-> IsPopularToken(rInput.chartUrl),
                   historicalDataUnavailable |-> rCtx.unavailable,
                   currentPrice |-> GeneratedQuote(generated, series).currentPrice,
                   marketCap |-> GeneratedQuote(generated, series).marketCap]
    /\ rPc' = "done"

\* return { ...codexData, source?, isPopularToken }
ReturnCodex(series) ==
    /\ rResult' = [outcome |-> "returned",
                   source |-> CASE rCtx.attempt = "forced"    -> "codex-forced"
                                [] rCtx.attempt = "timestamp" -> "codex-timestamp"
                                [] OTHER                      -> "codex",
                   generated |-> "none",
                   prices |-> series.prices, volumes |-> series.volumes,
                   timestamps |-> series.timestamps, dataPoints |-> series.dataPoints,
                   isPopularToken |-> rCtx.attempt = "normal" /\ IsPopularToken(rInput.chartUrl),
                   historicalDataUnavailable |-> FALSE,
                   currentPrice |-> <<"codex">>, marketCap |-> <<"codex">>]
    /\ rPc' = "done"

\* A faulty ResolverStart: the Codex request and the DexScreener lookup are
\* issued together, the lookup not waiting for the Codex request to fail.
ResolverStart_racing ==
    /\ rPc = "start"
    /\ LET actualUrl == ActualUrl(rInput.chartUrl)
           tokenInfo == extractTokenFromUrl(actualUrl)
           symbol    == Symbol(tokenInfo.address, networkMap(tokenInfo.chain))
       IN  IF tokenInfo.threw
           THEN /\ rResult' = [Pending EXCEPT !.outcome = "threw"]
                /\ rPc' = "done"
                /\ UNCHANGED <<rCtx, rFetches, codexVars>>
           ELSE IF tokenInfo.address # "" /\ tokenInfo.chain # ""
           THEN /\ rCtx' = [rCtx EXCEPT !.actualUrl = actualUrl, !.symbol = symbol,
                                        !.attempt = "normal", !.dexUrl = actualUrl,
                                        !.dexTweet = rInput.tweetTimestamp,
                                        !.tag = "dexscreener",
                                        !.chain = tokenInfo.chain, !.endpoint = 1]
                /\ CodexCall(symbol, rInput.timeframe, rInput.tweetTimestamp)
                /\ rFetches' = rFetches \o <<"codex", "dex">>
                /\ rPc' = "dex"
                /\ UNCHANGED rResult
           ELSE /\ FetchChartDataCall(actualUrl, rInput.tweetTimestamp, "dexscreener", FALSE)
                /\ UNCHANGED <<rResult, codexVars>>
    /\ UNCHANGED <<rInput, genVars, tweetVars, pageVars, anchorVars, endpointVars, overlapVars, historicalVars>>

\* Lines 552-619: alias lookup, token extraction, and the first Codex call.
ResolverStart ==
    /\ rPc = "start"
    /\ LET actualUrl == ActualUrl(rInput.chartUrl)
           tokenInfo == extractTokenFromUrl(actualUrl)
           symbol    == Symbol(tokenInfo.address, networkMap(tokenInfo.chain))
       IN  IF tokenInfo.threw
           THEN /\ rResult' = [Pending EXCEPT !.outcome = "threw"]
                /\ rPc' = "done"
                /\ UNCHANGED <<rCtx, rFetches, codexVars>>
           ELSE IF tokenInfo.address # "" /\ tokenInfo.chain # ""
           THEN /\ rCtx' = [rCtx EXCEPT !.actualUrl = actualUrl, !.symbol = symbol,
                                        !.attempt = IF rInput.chartUrl = <<PumpAddress>>
                                                    THEN "forced" ELSE "normal"]
                /\ CodexCall(symbol, rInput.timeframe,
                             IF rInput.chartUrl = <<PumpAddress>>
                             THEN NoTweet ELSE rInput.tweetTimestamp)
                /\ rFetches' = Append(rFetches, "codex")
                /\ rPc' = "codex"
                /\ UNCHANGED rResult
           ELSE /\ FetchChartDataCall(actualUrl, rInput.tweetTimestamp, "dexscreener", FALSE)
                /\ UNCHANGED <<rResult, codexVars>>
    /\ UNCHANGED <<rInput, genVars, tweetVars, pageVars, anchorVars, endpointVars, overlapVars, historicalVars>>

\* What follows a fetchCodexChartData that threw: the catch blocks at lines
\* 597, 607 and 626.
AfterCodexError(tweetIssue) ==
    IF rCtx.attempt = "forced"
    THEN /\ rCtx' = [rCtx EXCEPT !.attempt = "timestamp"]
         /\ CodexCall(rCtx.symbol, rInput.timeframe, rInput.tweetTimestamp)
         /\ rFetches' = Append(rFetches, "codex")
         /\ rPc' = "codex"
    ELSE IF rCtx.attempt = "timestamp"
    THEN /\ FetchChartDataCall(Str(rInput.chartUrl), rInput.tweetTimestamp,
                               "dexscreener-final-fallback", FALSE)
         /\ CodexRelease
    ELSE IF tweetIssue
    THEN /\ FetchChartDataCall(rCtx.actualUrl, NoTweet, "dexscreener-current-real", TRUE)
         /\ CodexRelease
    ELSE /\ FetchChartDataCall(rCtx.actualUrl, rInput.tweetTimestamp, "dexscreener", FALSE)
         /\ CodexRelease

\* The fetch of /api/codex rejects before the handler ran.
ResolverCodexRejected ==
    /\ rPc = "codex" /\ cPc = "start"
    /\ AfterCodexError(FALSE)
    /\ UNCHANGED <<rInput, rResult, genVars, tweetVars, pageVars, anchorVars, endpointVars, overlapVars, historicalVars>>

\* Lines 493-521: the response of /api/codex arrives.
ResolverCodexSettled ==
    /\ rPc = "codex" /\ cPc = "done"
    /\ IF cResponse.status = 200
       THEN /\ ReturnCodex(cResponse.series)
            /\ CodexRelease
            /\ UNCHANGED <<rCtx, rFetches>>
       ELSE /\ AfterCodexError(cResponse.status = 422 /\ cResponse.warning)
            /\ UNCHANGED rResult
    /\ UNCHANGED <<rInput, genVars, tweetVars, pageVars, anchorVars, endpointVars, overlapVars, historicalVars>>

\* getFallbackRealData is entered: its PEPE lookup is issued.
FallbackRealCall ==
    /\ rPc' = "pepe"
    /\ rFetches' = Append(rFetches, "pepe")
    /\ UNCHANGED <<rCtx, rResult>>

\* Lines 350-408: one endpoint of fetchChartData settles.
ResolverDexEndpoint ==
    /\ rPc = "dex"
    /\ \E out \in DexOutcomes :
         IF out.kind = "pairs"
         THEN /\ ReturnGenerated("pair",
                     generateHistoricalDataFromPair(out.pair, rInput.timeframe,
                                                    rCtx.dexTweet, cEnv.now))
              /\ UNCHANGED <<rCtx, rFetches>>
         ELSE IF out.kind = "malformed"
         THEN FallbackRealCall
         ELSE IF rCtx.endpoint < EndpointCount(rCtx.chain)
         THEN /\ rCtx' = [rCtx EXCEPT !.endpoint = rCtx.endpoint + 1]
              /\ rFetches' = Append(rFetches, "dex")
              /\ UNCHANGED <<rPc, rResult>>
         ELSE FallbackRealCall
    /\ UNCHANGED <<rInput, codexVars, genVars, tweetVars, pageVars, anchorVars, endpointVars, overlapVars, historicalVars>>

\* Lines 282-319: the PEPE lookup of getFallbackRealData settles.
ResolverFallbackReal ==
    /\ rPc = "pepe"
    /\ \E out \in DexOutcomes :
         IF out.kind = "pairs"
         THEN ReturnGenerated("pair",
                  generateHistoricalDataFromPair(out.pair, rInput.timeframe,
                                                 rCtx.dexTweet, cEnv.now))
         ELSE ReturnGenerated("mock",
                  generateMockChartData(rInput.timeframe, rCtx.dexTweet, cEnv.now))
    /\ UNCHANGED <<rInput, rCtx, rFetches, codexVars, genVars, tweetVars, pageVars, anchorVars, endpointVars, overlapVars, historicalVars>>

ResolverStep ==
    \/ ResolverStart
    \/ ResolverCodexRejected
    \/ ResolverCodexSettled
    \/ ResolverDexEndpoint
    \/ ResolverFallbackReal

-----------------------------------------------------------------------------
(* Tweet resolver: fetchTweetData                                          *)

\* Whether the piece ends with "twitter.com" or "x.com".
EndsWithTweetHost(piece) ==
    piece \in {"twitter.com", "x.com", "mobile.twitter.com", "www.x.com"}

\* The longest run of digits the piece starts with ("" when there is none).
LeadingDigits(piece) ==
    CASE piece = "1234567890123456789" -> "1234567890123456789"
      [] piece = "42?s=20"             -> "42"
      [] piece = "20"                  -> "20"
      [] OTHER                         -> ""

\* Where /(?:twitter\.com|x\.com)\/([^\/]+)\/status\/(\d+)/ matches: a piece
\* ending with the host, a non-empty piece, "status", and a piece that
\* starts with a digit.
TweetMatches(tweetUrl) ==
    {i \in 1..Len(tweetUrl) :
        /\ i + 3 <= Len(tweetUrl)
        /\ EndsWithTweetHost(tweetUrl[i])
        /\ tweetUrl[i + 1] # ""
        /\ tweetUrl[i + 2] = "status"
        /\ LeadingDigits(tweetUrl[i + 3]) # ""}

FirstMatch(tweetUrl) == CHOOSE i \in TweetMatches(tweetUrl) :
                            \A j \in TweetMatches(tweetUrl) : i <= j

\* extractTweetId(tweetUrl): the digits, or "" for null.
extractTweetId(tweetUrl) ==
    IF TweetMatches(tweetUrl) = {} THEN ""
    ELSE LeadingDigits(tweetUrl[FirstMatch(tweetUrl) + 3])

TweetUrls ==
    {<<"https:", "", "x.com", "alice", "status", "1234567890123456789">>,
     <<"https:", "", "mobile.twitter.com", "bob", "status", "42?s=20">>,
     <<"https:", "", "x.com", "i", "web", "status", "20">>,
     <<"https:", "", "twitter.com", "i", "web", "status", "20">>,
     <<"https:", "", "x.com", "alice", "status", "abc">>,
     <<"https:", "", "example.com", "alice", "status", "20">>,
     <<"https:", "", "x.com", "", "status", "20">>,
     <<"https:", "", "twitter.com", "carol", "status", "20">>,
     <<"not a url">>,
     <<"">>}

Handle(username) == <<"@", username>>

\* What the fetch of /api/tweet may come back with: a rejected promise, a
\* response that is not ok, an ok response whose body is not an object, or
\* an ok response whose fields are present or missing ("" / NoTweet).
TweetApiOutcomes ==
    {[kind |-> k, username |-> "", handle |-> <<>>, text |-> "", timestamp |-> NoTweet] :
        k \in {"reject", "notOk", "badJson"}}
    \cup [kind : {"ok"}, username : {"", "alice"}, handle : {<<>>, Handle("alice")},
          text : {"", "gm"}, timestamp : {NoTweet, ToISOString(Instant(BaseSeconds, 0))}]

TweetNows == {Instant(BaseSeconds + 86400, 250), Instant(BaseSeconds + 90000, 0)}

NoTweetRecord == [outcome |-> "pending", username |-> "", handle |-> <<>>,
                  text |-> "", timestamp |-> NoTweet]

TweetRecord(username, handle, text, timestamp) ==
    [outcome |-> "returned", username |-> username, handle |-> handle,
     text |-> text, timestamp |-> timestamp]

\* The record of the catch block.
UnknownTweet(now) ==
    TweetRecord("unknown", Handle("unknown"),
                "Tweet content unavailable - please manually input the tweet text",
                ToISOString(now))

TweetIdle ==
    /\ tPc = "idle" /\ tUrl = <<>> /\ tNow \in {Instant(0, 0)}
    /\ tFetches = 0 /\ tResult = NoTweetRecord

\* A faulty TweetStart: the "Invalid tweet URL format" error is raised outside
\* the try block.
TweetStart_throwOutsideTry ==
    /\ tPc = "start"
    /\ IF extractTweetId(tUrl) = ""
       THEN /\ tResult' = [NoTweetRecord EXCEPT !.outcome = "threw"]
            /\ tPc' = "done"
            /\ UNCHANGED tFetches
       ELSE /\ tFetches' = tFetches + 1
            /\ tPc' = "fetch"
            /\ UNCHANGED tResult
    /\ UNCHANGED <<tUrl, tNow, genVars, resolverVars, codexVars, pageVars, anchorVars, endpointVars, overlapVars, historicalVars>>

\* Lines 220-231: extract the id; without one the catch block answers.
TweetStart ==
    /\ tPc = "start"
    /\ IF extractTweetId(tUrl) = ""
       THEN /\ tResult' = UnknownTweet(tNow)
            /\ tPc' = "done"
            /\ UNCHANGED tFetches
       ELSE /\ tFetches' = tFetches + 1
            /\ tPc' = "fetch"
            /\ UNCHANGED tResult
    /\ UNCHANGED <<tUrl, tNow, genVars, resolverVars, codexVars, pageVars, anchorVars, endpointVars, overlapVars, historicalVars>>

\* Lines 231-271: the fetch of /api/tweet settles.
TweetSettled ==
    /\ tPc = "fetch"
    /\ \E out \in TweetApiOutcomes :
         tResult' =
            IF out.kind = "ok"
            THEN TweetRecord(IF out.username # "" THEN out.username ELSE "unknown",
                             IF out.handle # <<>> THEN out.handle ELSE Handle("unknown"),
                             IF out.text # "" THEN out.text ELSE "Tweet content unavailable",
                             IF out.timestamp # NoTweet THEN out.timestamp
                             ELSE ToISOString(tNow))
            ELSE IF out.kind = "notOk" /\ TweetMatches(tUrl) # {}
            THEN TweetRecord(tUrl[FirstMatch(tUrl) + 1],
                             Handle(tUrl[FirstMatch(tUrl) + 1]),
                             "Tweet content unavailable - API request failed",
                             ToISOString(tNow))
            ELSE UnknownTweet(tNow)
    /\ tPc' = "done"
    /\ UNCHANGED <<tUrl, tNow, tFetches, genVars, resolverVars, codexVars, pageVars, anchorVars, endpointVars, overlapVars, historicalVars>>

TweetStep == TweetStart \/ TweetSettled

-----------------------------------------------------------------------------
(* The generator as a state machine: one call per behaviour                *)

GenIdle ==
    /\ gPc = "off" /\ gKind = "none" /\ gTimeframe = "1h" /\ gTweet = NoTweet
    /\ gNow \in Nows /\ gPair = NoPair /\ gPolicy = NoPolicy /\ gOut = NoSeries

GenInit ==
    /\ gPc = "ready"
    /\ gKind \in {"pair", "mock"}
    /\ gTimeframe \in Timeframes
    /\ gTweet \in TweetTimestamps
    /\ gNow \in Nows
    /\ gPair \in (IF gKind = "pair" THEN PairSnapshots ELSE {NoPair})
    /\ gPolicy = NoPolicy
    /\ gOut = NoSeries

PolicyFor(timeframe) ==
    [intervalMs    |-> getIntervalMs(timeframe),
     timeframeMs   |-> getTimeframeInMs(timeframe),
     maxDataPoints |-> getOptimalDataPoints(timeframe)]

GenerateFromPair ==
    /\ gPc = "ready" /\ gKind = "pair"
    /\ gPolicy' = PolicyFor(gTimeframe)
    /\ gOut' = generateHistoricalDataFromPair(gPair, gTimeframe, gTweet, gNow)
    /\ gPc' = "done"
    /\ UNCHANGED <<gKind, gTimeframe, gTweet, gNow, gPair>>
    /\ UNCHANGED <<resolverVars, codexVars, tweetVars, pageVars, anchorVars, endpointVars, overlapVars, historicalVars>>

GenerateMock ==
    /\ gPc = "ready" /\ gKind = "mock"
    /\ gPolicy' = PolicyFor(gTimeframe)
    /\ gOut' = generateMockChartData(gTimeframe, gTweet, gNow)
    /\ gPc' = "done"
    /\ UNCHANGED <<gKind, gTimeframe, gTweet, gNow, gPair>>
    /\ UNCHANGED <<resolverVars, codexVars, tweetVars, pageVars, anchorVars, endpointVars, overlapVars, historicalVars>>

NextGen == GenerateFromPair \/ GenerateMock

-----------------------------------------------------------------------------
(* The page component: handleGenerate, one action per await                *)

\* The chart URL handleGenerate does not test the DexScreener API for.
PepeChartUrl == DexUrl("ethereum", "0x6982508145454ce325ddbe47a25d4ec3d2311933")

\* Invocations of handleGenerate one behaviour follows.
MaxRuns == 1

PageTweetUrls == {<<"https:", "", "x.com", "alice", "status", "1234567890123456789">>,
                  <<"not a url">>}

PageChartUrls == {PepeChartUrl, <<PumpAddress>>, <<"constructor">>}

PageTimeframes == {"1h", "1d"}

NoPageInput == [tweetUrl |-> <<>>, chartUrl |-> <<>>, timeframe |-> "1h"]

PageIdle ==
    /\ pPc = "idle" /\ pInput = NoPageInput /\ pClosure = NoPageInput
    /\ isLoading = FALSE /\ isGenerated = FALSE /\ chartData = "undefined"
    /\ apiChartData = "undefined" /\ fetchedTweetData = NoTweet
    /\ pToast = "" /\ pRuns = 0

\* The message of the TypeError fetchChartDataWithHistory rejects with.
ResolverErrorMessage == "actualUrl.startsWith is not a function"

\* error.message.includes('Tweet Timestamp Issue')
MentionsTimestampIssue(message) == message = "Tweet Timestamp Issue"

\* fetchTweetData(tweetUrl) is called.
FetchTweetDataCall(tweetUrl) ==
    /\ tPc' = "start" /\ tUrl' = tweetUrl /\ tNow' = cEnv.now
    /\ tFetches' = 0 /\ tResult' = NoTweetRecord

\* fetchChartDataWithHistory(chartUrl, timeframe, tweetTimestamp) is called.
FetchChartDataWithHistoryCall(chartUrl, timeframe, tweetTimestamp) ==
    /\ rPc' = "start"
    /\ rInput' = [chartUrl |-> chartUrl, timeframe |-> timeframe,
                  tweetTimestamp |-> tweetTimestamp]
    /\ rCtx' = NoCtx /\ rFetches' = <<>> /\ rResult' = Pending

\* Lines 61-72: the synchronous head of handleGenerate, up to its first await.
HandleGenerate(closure) ==
    /\ isLoading' = TRUE
    /\ chartData' = "undefined"
    /\ pClosure' = closure
    /\ pRuns' = pRuns + 1
    /\ IF closure.chartUrl # PepeChartUrl
       THEN /\ pPc' = "test"
            /\ UNCHANGED tweetVars
       ELSE /\ pPc' = "tweet"
            /\ FetchTweetDataCall(closure.tweetUrl)
    /\ UNCHANGED <<isGenerated, apiChartData, fetchedTweetData, pToast>>
    /\ UNCHANGED <<genVars, resolverVars, codexVars>>

\* The GENERATE button: disabled while isLoading.
PageClickGenerate ==
    /\ UNCHANGED <<anchorVars, endpointVars, overlapVars, historicalVars>>
    /\ pPc = "idle" /\ ~isLoading /\ pRuns < MaxRuns
    /\ HandleGenerate(pInput)
    /\ UNCHANGED pInput

\* The timeframe <select>: setTimeframe, then handleGenerate when a chart is
\* already there.  The handler runs with the timeframe of the render it was
\* created in.
PageChangeTimeframe ==
    /\ UNCHANGED <<anchorVars, endpointVars, overlapVars, historicalVars>>
    /\ pPc = "idle" /\ pRuns < MaxRuns
    /\ \E timeframe \in PageTimeframes \ {pInput.timeframe} :
         pInput' = [pInput EXCEPT !.timeframe = timeframe]
    /\ IF isGenerated
       THEN HandleGenerate(pInput)
       ELSE UNCHANGED <<pPc, pClosure, isLoading, isGenerated, chartData,
                        apiChartData, fetchedTweetData, pToast, pRuns,
                        genVars, resolverVars, codexVars, tweetVars>>

\* Lines 66-72: testDexScreenerAPI settles (it catches whatever its fetch
\* does), and fetchTweetData is called.
PageTestSettled ==
    /\ UNCHANGED <<anchorVars, endpointVars, overlapVars, historicalVars>>
    /\ pPc = "test"
    /\ \E out \in {"ok", "reject", "badJson"} :
         /\ pPc' = "tweet"
         /\ FetchTweetDataCall(pClosure.tweetUrl)
    /\ UNCHANGED <<pInput, pClosure, isLoading, isGenerated, chartData,
                   apiChartData, fetchedTweetData, pToast, pRuns>>
    /\ UNCHANGED <<genVars, resolverVars, codexVars>>

\* A faulty Finish: the catch block without the finally block.
Finish_noFinally(threw, source, tweetTimestamp, message) ==
    /\ pPc' = "idle"
    /\ isGenerated' = TRUE
    /\ IF threw
       THEN /\ pToast' = IF MentionsTimestampIssue(message)
                         THEN "Tweet Timestamp Issue" ELSE "Chart Generation Error"
            /\ UNCHANGED <<apiChartData, fetchedTweetData, isLoading>>
       ELSE /\ apiChartData' = source
            /\ fetchedTweetData' = tweetTimestamp
            /\ isLoading' = FALSE
            /\ UNCHANGED pToast

\* Lines 89-118: the rest of the try block, or the catch block, and the
\* finally block.  Of the stored tweet record the model keeps the timestamp.
Finish(threw, source, tweetTimestamp, message) ==
    /\ pPc' = "idle"
    /\ isGenerated' = TRUE
    /\ isLoading' = FALSE
    /\ IF threw
       THEN /\ pToast' = IF MentionsTimestampIssue(message)
                         THEN "Tweet Timestamp Issue" ELSE "Chart Generation Error"
            /\ UNCHANGED <<apiChartData, fetchedTweetData>>
       ELSE /\ apiChartData' = source
            /\ fetchedTweetData' = tweetTimestamp
            /\ UNCHANGED pToast

\* Lines 72-76: fetchTweetData settles.  A rejection goes to the catch block;
\* otherwise fetchChartDataWithHistory is called with the record's timestamp.
PageTweetSettled ==
    /\ UNCHANGED <<anchorVars, endpointVars, overlapVars, historicalVars>>
    /\ pPc = "tweet" /\ tPc = "done"
    /\ IF tResult.outcome = "threw"
       THEN /\ Finish(TRUE, "", NoTweet, "Invalid tweet URL format")
            /\ UNCHANGED resolverVars
       ELSE /\ pPc' = "chart"
            /\ FetchChartDataWithHistoryCall(pClosure.chartUrl, pClosure.timeframe,
                                             tResult.timestamp)
            /\ UNCHANGED <<isLoading, isGenerated, apiChartData, fetchedTweetData, pToast>>
    /\ tPc' = "idle" /\ tUrl' = <<>> /\ tNow' = Instant(0, 0)
    /\ tFetches' = 0 /\ tResult' = NoTweetRecord
    /\ UNCHANGED <<pInput, pClosure, chartData, pRuns, genVars, codexVars>>

\* Lines 76-118: fetchChartDataWithHistory settles.
PageChartSettled ==
    /\ UNCHANGED <<anchorVars, endpointVars, overlapVars, historicalVars>>
    /\ pPc = "chart" /\ rPc = "done"
    /\ Finish(rResult.outcome = "threw", rResult.source, rInput.tweetTimestamp,
              ResolverErrorMessage)
    /\ rPc' = "idle" /\ rInput' = NoInput /\ rCtx' = NoCtx
    /\ rFetches' = <<>> /\ rResult' = Pending
    /\ cPc' = "idle" /\ cRequest' = NoRequest /\ cLocals' = NoLocals
    /\ cSent' = <<>> /\ cResponse' = NoResponse
    /\ UNCHANGED <<pInput, pClosure, chartData, pRuns, cEnv, genVars, tweetVars>>

\* handleChartReady: the chart component hands over its chart.
HandleChartReady ==
    /\ UNCHANGED <<anchorVars, endpointVars, overlapVars, historicalVars>>
    /\ isGenerated /\ chartData = "undefined" /\ pPc = "idle"
    /\ chartData' = "ready"
    /\ UNCHANGED <<pPc, pInput, pClosure, isLoading, isGenerated,
                   apiChartData, fetchedTweetData, pToast, pRuns>>
    /\ UNCHANGED <<genVars, resolverVars, codexVars, tweetVars>>

PageStep ==
    \/ PageClickGenerate
    \/ PageChangeTimeframe
    \/ PageTestSettled
    \/ PageTweetSettled
    \/ PageChartSettled
    \/ HandleChartReady

-----------------------------------------------------------------------------
(* Anchor locator: calculateTimeAnchorOnLine                               *)
(* Times are whole seconds here (the code's milliseconds / 1000); prices   *)
(* are whole numbers; sample indices are 0-based as in the code.           *)

AbsDiff(a, b) == IF a >= b THEN a - b ELSE b - a

Max2(a, b) == IF a >= b THEN a ELSE b

\* Lines 144-153: the forEach that keeps the first sample of least distance.
\* `infinite` stands for Number.POSITIVE_INFINITY.
RECURSIVE ClosestScan(_, _, _, _)
ClosestScan(timestamps, tweetTime, index, best) ==
    IF index >= Len(timestamps) THEN best
    ELSE LET difference == AbsDiff(timestamps[index + 1], tweetTime)
         IN  ClosestScan(timestamps, tweetTime, index + 1,
                 IF best.infinite \/ difference < best.minDifference
                 THEN [closestIndex |-> index, minDifference |-> difference,
                       infinite |-> FALSE]
                 ELSE best)

Closest(timestamps, tweetTime) ==
    ClosestScan(timestamps, tweetTime, 0,
                [closestIndex |-> 0, minDifference |-> 0, infinite |-> TRUE])

\* A faulty IsSignificant: any movement counts.
IsSignificant_anyMove(currentPrice, nextPrice) ==
    AbsDiff(nextPrice, currentPrice) > 0

\* Line 196: priceChange > 0.05, with priceChange = |next - current| / current.
IsSignificant(currentPrice, nextPrice) ==
    20 * AbsDiff(nextPrice, currentPrice) > currentPrice

\* Lines 185-202: the loop over the search window.  maxPriceChange is kept as
\* the fraction num / den.
RECURSIVE SpikeScan(_, _, _, _)
SpikeScan(prices, i, searchEnd, acc) ==
    IF i >= searchEnd - 1 THEN acc
    ELSE LET currentPrice == prices[i + 1]
             nextPrice    == prices[i + 2]
             num          == AbsDiff(nextPrice, currentPrice)
         IN  SpikeScan(prices, i + 1, searchEnd,
                 IF /\ currentPrice # 0 /\ nextPrice # 0
                    /\ IsSignificant(currentPrice, nextPrice)
                    /\ num * acc.den > acc.num * currentPrice
                 THEN [spikeDetected |-> TRUE, spikeStartIndex |-> i,
                       num |-> num, den |-> currentPrice]
                 ELSE acc)

\* Lines 156-205: the anchor before the range check.
SpikeSearch(timeframe, prices, n, closestIndex) ==
    IF timeframe = "1m"
    THEN [anchorIndex |-> closestIndex, spikeDetected |-> FALSE]
    ELSE LET backwardWindow == Min(5, n \div 8)
             forwardWindow  == Min(20, n \div 3)
             searchStart    == Max2(0, closestIndex - backwardWindow)
             searchEnd      == Min(n - 1, closestIndex + forwardWindow)
             found == SpikeScan(prices, searchStart, searchEnd,
                                [spikeDetected |-> FALSE, spikeStartIndex |-> closestIndex,
                                 num |-> 0, den |-> 1])
         IN  [anchorIndex |-> IF found.spikeDetected THEN found.spikeStartIndex
                              ELSE closestIndex,
              spikeDetected |-> found.spikeDetected]

\* Lines 228-241 of part_001.
toleranceMs(timeframe) ==
    IF timeframe \in {"5m", "15m", "1h"} THEN 15 * 60
    ELSE IF timeframe = "1w" THEN 7 * 24 * 60 * 60
    ELSE IF timeframe = "1m" THEN 30 * 24 * 60 * 60
    ELSE 30 * 60

\* Lines 151-161 of tweet-overlay.tsx: no monthly case.
toleranceMsOverlay(timeframe) ==
    IF timeframe \in {"5m", "15m", "1h"} THEN 15 * 60
    ELSE IF timeframe = "1w" THEN 7 * 24 * 60 * 60
    ELSE 30 * 60

\* Date.prototype.toDateString: the calendar day in the local time zone,
\* `zone` seconds east of UTC.
toDateString(time, zone) == (time + zone + 400 * 86400) \div 86400

\* Lines 244-259 of part_001.
isOutsideRange(timeframe, tweetTime, dataStart, dataEnd, zone) ==
    IF /\ timeframe = "1m"
       /\ toDateString(dataEnd, zone) = toDateString(tweetTime, zone)
       /\ tweetTime > dataEnd
    THEN FALSE
    ELSE tweetTime < dataStart \/ tweetTime > dataEnd

\* A faulty CenterFallback: a tweet out of range keeps the anchor found.
CenterFallback_largeDifferenceOnly(anchorIndex, n, outsideRange, largeDifference) ==
    IF largeDifference /\ ~outsideRange THEN n \div 2 ELSE anchorIndex

\* Lines 265-267: Math.floor(chartData.timeData.length / 2).
CenterFallback(anchorIndex, n, outsideRange, largeDifference) ==
    IF outsideRange \/ largeDifference THEN n \div 2 ELSE anchorIndex

\* What Chart.js reports for the rendered line: element `index` of dataset 0
\* and the scales agree on where a sample is.
ChartLayout == [left |-> 40, gap |-> 10, bottom |-> 400,
                canvasOffsetX |-> 8, canvasOffsetY |-> 16]

getPixelForIndex(index) == ChartLayout.left + index * ChartLayout.gap

getPixelForPrice(price) == ChartLayout.bottom - price

Anchor(x, y, anchorIndex, spikeDetected, usingCenterFallback) ==
    [x |-> x, y |-> y, anchorIndex |-> anchorIndex,
     spikeDetected |-> spikeDetected, usingCenterFallback |-> usingCenterFallback]

NoAnchor == Anchor(0, 0, 0, FALSE, FALSE)

\* Lines 299-346 of part_001: without canvas or container {x: 0, y: 0}; the
\* line element when Chart.js has one, else the scales.  Either way the
\* canvas offset is added.  A price of 0 is replaced by 0.000001, which the
\* scale puts on the same pixel.
PixelLookup(chart, anchorIndex) ==
    IF ~chart.canvas \/ ~chart.container
    THEN [x |-> 0, y |-> 0]
    ELSE [x |-> getPixelForIndex(anchorIndex) + ChartLayout.canvasOffsetX,
          y |-> getPixelForPrice(chart.prices[anchorIndex + 1]) + ChartLayout.canvasOffsetY]

\* calculateTimeAnchorOnLine of part_001, lines 137-346.
calculateTimeAnchorOnLine(timeframe, tweetTime, chart, zone) ==
    LET n         == Len(chart.timestamps)
        closest   == Closest(chart.timestamps, tweetTime)
        spike     == SpikeSearch(timeframe, chart.prices, n, closest.closestIndex)
        outside   == isOutsideRange(timeframe, tweetTime, chart.timestamps[1],
                                    chart.timestamps[n], zone)
        large     == closest.minDifference > toleranceMs(timeframe)
        anchorIndex == CenterFallback(spike.anchorIndex, n, outside, large)
        pixel     == PixelLookup(chart, anchorIndex)
    IN  Anchor(pixel.x, pixel.y, anchorIndex, spike.spikeDetected, outside \/ large)

\* calculateTimeAnchorOnLine of tweet-overlay.tsx, lines 130-233: the closest
\* sample or the centre, read off the scales.
calculateTimeAnchorOnLineOverlay(timeframe, tweetTime, chart) ==
    LET n         == Len(chart.timestamps)
        closest   == Closest(chart.timestamps, tweetTime)
        outside   == tweetTime < chart.timestamps[1] \/ tweetTime > chart.timestamps[n]
        large     == closest.minDifference > toleranceMsOverlay(timeframe)
        closestIndex == CenterFallback(closest.closestIndex, n, outside, large)
    IN  Anchor(getPixelForIndex(closestIndex),
               getPixelForPrice(chart.prices[closestIndex + 1]),
               closestIndex, FALSE, outside \/ large)

AnchorTimeframes == {"5m", "1d", "1w", "1m"}

AnchorLengths == {1, 2, 9}

\* Evenly spaced samples, the first at BaseSeconds.
AnchorTimestamps(n, timeframe) ==
    [i \in 1..n |-> BaseSeconds + (i - 1) * getIntervalMs(timeframe)]

\* Price lines: one step of +5%, +6% or -10% after sample k (none for k = n),
\* two steps of +6% and +20%, and a line that starts from a price of 0.
AnchorPrices(n) ==
    {[i \in 1..n |-> IF i <= k THEN 100 ELSE 100 + m] : k \in 1..n, m \in {5, 6, -10}}
    \cup {[i \in 1..n |-> IF i <= 3 THEN 100 ELSE IF i <= 5 THEN 106 ELSE 128]}
    \cup {[i \in 1..n |-> IF i = 1 THEN 0 ELSE 100]}

FourHundredDays == 400 * 24 * 60 * 60

\* Tweet times: on every sample, between two samples, just outside the
\* series, outside it by the tolerance and by a second more, and 400 days
\* away.
AnchorTweetTimes(n, timeframe) ==
    LET timestamps == AnchorTimestamps(n, timeframe)
        first == timestamps[1]
        last  == timestamps[n]
        tol   == toleranceMs(timeframe)
    IN  {timestamps[i] : i \in 1..n}
        \cup {first + 100, first - 1, last + 1,
              first - tol, first - tol - 1, last + tol, last + tol + 1,
              first - FourHundredDays, last + FourHundredDays}

AnchorCharts(timeframe) ==
    UNION {[timestamps : {AnchorTimestamps(n, timeframe)}, prices : AnchorPrices(n),
            canvas : BOOLEAN, container : {TRUE}] : n \in AnchorLengths}
    \cup [timestamps : {AnchorTimestamps(9, timeframe)},
          prices : {[i \in 1..9 |-> 100]}, canvas : {TRUE}, container : {FALSE}]

\* Time zones of the browser, seconds east of UTC.
AnchorZones == {0, -28800}

AnchorInputs ==
    UNION {[version : {"part_001", "tweet-overlay.tsx"}, timeframe : {timeframe},
            tweetTime : AnchorTweetTimes(Len(chart.timestamps), timeframe),
            chart : {chart}, zone : AnchorZones] :
           <<timeframe, chart>> \in
               UNION {{<<tf, ch>> : ch \in AnchorCharts(tf)} : tf \in AnchorTimeframes}}

NoAnchorInput == [version |-> "", timeframe |-> "1h", tweetTime |-> 0,
                  chart |-> [timestamps |-> <<>>, prices |-> <<>>,
                             canvas |-> FALSE, container |-> FALSE],
                  zone |-> 0]

AnchorIdle == aPc = "idle" /\ aInput = NoAnchorInput /\ aResult = NoAnchor

\* The overlay's effect calls calculateTimeAnchorOnLine of part_001.
LocateAnchor ==
    /\ aPc = "ready" /\ aInput.version = "part_001"
    /\ aResult' = calculateTimeAnchorOnLine(aInput.timeframe, aInput.tweetTime,
                                            aInput.chart, aInput.zone)
    /\ aPc' = "done"
    /\ UNCHANGED <<aInput, endpointVars, overlapVars, historicalVars>>
    /\ UNCHANGED <<genVars, resolverVars, codexVars, tweetVars, pageVars>>

\* The overlay's effect calls calculateTimeAnchorOnLine of tweet-overlay.tsx.
LocateAnchorOverlay ==
    /\ aPc = "ready" /\ aInput.version = "tweet-overlay.tsx"
    /\ aResult' = calculateTimeAnchorOnLineOverlay(aInput.timeframe, aInput.tweetTime,
                                                   aInput.chart)
    /\ aPc' = "done"
    /\ UNCHANGED <<aInput, endpointVars, overlapVars, historicalVars>>
    /\ UNCHANGED <<genVars, resolverVars, codexVars, tweetVars, pageVars>>

AnchorStep == LocateAnchor \/ LocateAnchorOverlay

-----------------------------------------------------------------------------
(* GET /api/tweet                                                          *)

\* The id parameter of a request, as the text it is. A decimal integer is
\* written <<"int", S, rem>> and stands for S * 1000 * 2^22 + rem with
\* 0 <= rem < 2^31; <<"hugeInt">> is a decimal integer of forty digits;
\* <<"text", ...>> is any other text; <<"null">> is a missing parameter.
TwoPow22 == 4194304

NoEndpointInput == [tweetId |-> <<"null">>, now |-> Instant(0, 0), zone |-> 0]

NoEndpointData == [kind |-> "none", created_at |-> <<"undefined">>]

NoEndpointResponse == [status |-> 0, timestamp |-> NoTweet]

EndpointIdle ==
    /\ ePc = "idle" /\ eInput = NoEndpointInput
    /\ eData = NoEndpointData /\ eResponse = NoEndpointResponse

\* new Date(NaN)
InvalidDate == Instant(0, -1)

\* isNaN(date.getTime())
IsNaNDate(date) == date.ms < 0

\* JavaScript truthiness of a string-or-undefined value.
Truthy(value) ==
    \/ value[1] = "TwitterDate"
    \/ value[1] = "int"
    \/ value[1] = "hugeInt"
    \/ (value[1] = "text" /\ value[2] # "")

\* new Date(data.created_at) for the upstream's "Wed Oct 10 20:19:24 +0000
\* 2018" form, which carries whole seconds; other text is not a date.
NewDateOfCreatedAt(created_at) ==
    IF created_at[1] = "TwitterDate" THEN Instant(created_at[2], 0) ELSE InvalidDate

\* Date.prototype.getFullYear: the calendar year of the instant in the
\* server's zone (offset in seconds east of UTC).
getFullYear(date, zone) ==
    LET z    == ((date.s + zone) \div 86400) + 719468
        era  == z \div 146097
        doe  == z - era * 146097
        yoe  == (doe - (doe \div 1460) + (doe \div 36524) - (doe \div 146096)) \div 365
        doy  == doe - (365 * yoe + (yoe \div 4) - (yoe \div 100))
        mp   == (5 * doy + 2) \div 153
        month == IF mp < 10 THEN mp + 3 ELSE mp - 9
    IN  yoe + era * 400 + (IF month <= 2 THEN 1 ELSE 0)

\* Line 157.
twitterEpoch == Instant(1288834974, 657)

\* A faulty shift: the id is rounded to the nearest multiple of 2^22.
ShiftRight22_rounding(tweetId) ==
    [s |-> tweetId[2], ms |-> (tweetId[3] + (TwoPow22 \div 2)) \div TwoPow22]

\* tweetIdBigInt >> BigInt(22): whole seconds and milliseconds of the
\* quotient.
ShiftRight22(tweetId) ==
    [s |-> tweetId[2], ms |-> tweetId[3] \div TwoPow22]

\* new Date(Number(tweetIdBigInt >> BigInt(22)) + twitterEpoch); a sum
\* beyond the range of Date is an invalid date.
ExtractedDate(tweetId) ==
    IF tweetId[1] = "hugeInt" THEN InvalidDate
    ELSE LET q == ShiftRight22(tweetId)
         IN  Instant(q.s + twitterEpoch.s + ((q.ms + twitterEpoch.ms) \div 1000),
                     (q.ms + twitterEpoch.ms) % 1000)

\* BigInt(tweetId) throws a SyntaxError for text that is no integer.
BigIntThrows(tweetId) == tweetId[1] \notin {"int", "hugeInt"}

\* Lines 126-148: the timestamp after the look at created_at.
ParsedCreatedAt(created_at, now) ==
    IF Truthy(created_at) /\ ~IsNaNDate(NewDateOfCreatedAt(created_at))
    THEN ToISOString(NewDateOfCreatedAt(created_at))
    ELSE ToISOString(now)

\* Line 152.
NeedsSnowflake(created_at, parsedTimestamp) ==
    \/ ~Truthy(created_at)
    \/ IsNaNDate(DateParse(parsedTimestamp))

\* A faulty year bound: the upper end is left out.
YearInBounds_noUpper(extractedDate, now, zone) ==
    /\ ~IsNaNDate(extractedDate)
    /\ getFullYear(extractedDate, zone) >= 2006

\* Line 162.
YearInBounds(extractedDate, now, zone) ==
    /\ ~IsNaNDate(extractedDate)
    /\ getFullYear(extractedDate, zone) >= 2006
    /\ getFullYear(extractedDate, zone) <= getFullYear(now, zone)

\* Lines 126-175: the timestamp of the response.
ParsedTimestamp(tweetId, created_at, now, zone) ==
    LET parsedTimestamp == ParsedCreatedAt(created_at, now)
    IN  IF NeedsSnowflake(created_at, parsedTimestamp)
           /\ ~BigIntThrows(tweetId)
           /\ YearInBounds(ExtractedDate(tweetId), now, zone)
        THEN ToISOString(ExtractedDate(tweetId))
        ELSE parsedTimestamp

EndpointResponse(status, timestamp) == [status |-> status, timestamp |-> timestamp]

\* Lines 103-117: without an id the answer is 400; otherwise the token is
\* computed and the syndication API is asked.
EndpointGet ==
    /\ ePc = "start"
    /\ IF ~Truthy(eInput.tweetId)
       THEN /\ eResponse' = EndpointResponse(400, NoTweet)
            /\ ePc' = "done"
       ELSE /\ ePc' = "fetch"
            /\ UNCHANGED eResponse
    /\ UNCHANGED <<eInput, eData>>
    /\ UNCHANGED <<genVars, resolverVars, codexVars, tweetVars, pageVars, anchorVars, overlapVars, historicalVars>>

\* Lines 117-121 and 197-202: the fetch rejects, or answers with a status
\* that is not ok, and the catch block answers 500; or it answers ok.
EndpointFetchSettled ==
    /\ ePc = "fetch"
    /\ \E outcome \in {"rejected", "notOk", "ok"} :
         IF outcome = "ok"
         THEN /\ ePc' = "json"
              /\ UNCHANGED eResponse
         ELSE /\ eResponse' = EndpointResponse(500, NoTweet)
              /\ ePc' = "done"
    /\ UNCHANGED <<eInput, eData>>
    /\ UNCHANGED <<genVars, resolverVars, codexVars, tweetVars, pageVars, anchorVars, overlapVars, historicalVars>>

UpstreamCreatedAts ==
    {<<"undefined">>, <<"text", "">>, <<"text", "yesterday">>,
     <<"TwitterDate", 1539202764>>}

UpstreamBodies ==
    {[kind |-> "object", created_at |-> created_at] : created_at \in UpstreamCreatedAts}
        \cup {[kind |-> "null", created_at |-> <<"undefined">>],
              [kind |-> "invalid json", created_at |-> <<"undefined">>]}

\* Lines 123-202: the body is read. A body that is no JSON, and the body
\* null (whose created_at cannot be read), end in the catch block.
EndpointJsonSettled ==
    /\ ePc = "json"
    /\ \E data \in UpstreamBodies :
         /\ eData' = data
         /\ eResponse' =
               IF data.kind = "object"
               THEN EndpointResponse(200, ParsedTimestamp(eInput.tweetId, data.created_at,
                                                          eInput.now, eInput.zone))
               ELSE EndpointResponse(500, NoTweet)
    /\ ePc' = "done"
    /\ UNCHANGED eInput
    /\ UNCHANGED <<genVars, resolverVars, codexVars, tweetVars, pageVars, anchorVars, overlapVars, historicalVars>>

EndpointStep == EndpointGet \/ EndpointFetchSettled \/ EndpointJsonSettled

\* Ids that decode to 2018-10-10T20:19:25.029Z, 2010-11-04T01:42:54.657Z,
\* 2006-01-01T02:00:00.657Z, 2005-12-31T23:30:00.657Z,
\* 2027-01-01T03:00:00.657Z and 2030-06-01T00:00:00.657Z; an id too large
\* for a date; ids that are no integers; no id.
EndpointTweetIds ==
    {<<"int", 250367790, 1563281088>>, <<"int", 0, 20>>,
     <<"int", -152754174, 0>>, <<"int", -152763174, 4194303>>,
     <<"int", 509937426, 0>>, <<"int", 617667426, 0>>,
     <<"hugeInt">>, <<"text", "abc">>, <<"text", "12.5">>,
     <<"text", "">>, <<"null">>}

\* 2026-11-05T12:00:00.250Z and 2026-12-31T23:30:00.000Z.
EndpointNows == {Instant(1793880000, 250), Instant(1798759800, 0)}

\* UTC, UTC-8 and UTC+9.
EndpointZones == {0, -28800, 32400}

-----------------------------------------------------------------------------
(* The page with overlapping invocations of handleGenerate                 *)

\* Invocations of handleGenerate one behaviour follows.
MaxInvocations == 3

OverlapTweetUrl == <<"https:", "", "x.com", "alice", "status", "1234567890123456789">>

OverlapChartUrls == {PepeChartUrl, <<PumpAddress>>, <<"constructor">>}

\* What apiChartData and fetchedTweetData hold here: the invocation that
\* stored them and the inputs it fetched for.
NoSeriesShown == [run |-> 0, timeframe |-> "", chartUrl |-> <<>>]

SeriesOf(run, closure) ==
    [run |-> run, timeframe |-> closure.timeframe, chartUrl |-> closure.chartUrl]

TweetOf(run) == <<"tweet of run", run>>

OverlapIdle == oRuns = <<>> /\ oDone = <<>>

\* Lines 60-72 of part_003: the synchronous head of one invocation, up to
\* its first await, with the inputs of the render the handler belongs to.
\* Kept with it for the record: the control that called it, the timeframe
\* the selector shows after the call, and the invocations then in flight.
OverlapInvoke(closure, trigger, selected) ==
    /\ isLoading' = TRUE
    /\ chartData' = "undefined"
    /\ oRuns' = Append(oRuns, [pc |-> IF closure.chartUrl # PepeChartUrl
                                      THEN "test" ELSE "tweet",
                               closure |-> closure,
                               trigger |-> trigger,
                               selected |-> selected,
                               inFlight |-> {k \in 1..Len(oRuns) : oRuns[k].pc # "done"}])
    /\ UNCHANGED <<pPc, pClosure, isGenerated, apiChartData, fetchedTweetData,
                   pToast, pRuns, oDone>>

\* The GENERATE button: disabled while isLoading.
OverlapClickGenerate ==
    /\ ~isLoading /\ Len(oRuns) < MaxInvocations
    /\ OverlapInvoke(pInput, "button", pInput.timeframe)
    /\ UNCHANGED pInput
    /\ UNCHANGED <<genVars, resolverVars, codexVars, tweetVars, anchorVars, endpointVars, historicalVars>>

\* The timeframe <select>, which is never disabled: setTimeframe, then
\* handleGenerate when a chart is already there.  The handler called is the
\* one of the current render, whose timeframe is the one before the change.
OverlapChangeTimeframe ==
    /\ \E timeframe \in PageTimeframes \ {pInput.timeframe} :
         /\ pInput' = [pInput EXCEPT !.timeframe = timeframe]
         /\ IF isGenerated
            THEN /\ Len(oRuns) < MaxInvocations
                 /\ OverlapInvoke(pInput, "select", timeframe)
            ELSE UNCHANGED <<pPc, pClosure, isLoading, isGenerated, chartData,
                             apiChartData, fetchedTweetData, pToast, pRuns, overlapVars>>
    /\ UNCHANGED <<genVars, resolverVars, codexVars, tweetVars, anchorVars, endpointVars, historicalVars>>

\* The chart URL <Input>: setChartUrl.
OverlapEditChartUrl ==
    /\ \E chartUrl \in OverlapChartUrls \ {pInput.chartUrl} :
         pInput' = [pInput EXCEPT !.chartUrl = chartUrl]
    /\ UNCHANGED <<pPc, pClosure, isLoading, isGenerated, chartData,
                   apiChartData, fetchedTweetData, pToast, pRuns, overlapVars>>
    /\ UNCHANGED <<genVars, resolverVars, codexVars, tweetVars, anchorVars, endpointVars, historicalVars>>

\* Lines 66-72: testDexScreenerAPI of one invocation settles and
\* fetchTweetData is called.
OverlapTestSettled ==
    /\ \E run \in 1..Len(oRuns) :
         /\ oRuns[run].pc = "test"
         /\ oRuns' = [oRuns EXCEPT ![run].pc = "tweet"]
    /\ UNCHANGED <<pageVars, oDone>>
    /\ UNCHANGED <<genVars, resolverVars, codexVars, tweetVars, anchorVars, endpointVars, historicalVars>>

\* Lines 72-76: fetchTweetData of one invocation settles with a record and
\* fetchChartDataWithHistory is called with the closure's chart URL and
\* timeframe.
OverlapTweetSettled ==
    /\ \E run \in 1..Len(oRuns) :
         /\ oRuns[run].pc = "tweet"
         /\ oRuns' = [oRuns EXCEPT ![run].pc = "chart"]
    /\ UNCHANGED <<pageVars, oDone>>
    /\ UNCHANGED <<genVars, resolverVars, codexVars, tweetVars, anchorVars, endpointVars, historicalVars>>

\* Lines 76-118: fetchChartDataWithHistory of one invocation settles, with a
\* series or with the TypeError of its token extraction, and the invocation
\* runs to its end.
OverlapChartSettled ==
    /\ \E run \in 1..Len(oRuns) :
         /\ oRuns[run].pc = "chart"
         /\ Finish(extractTokenFromUrl(ActualUrl(oRuns[run].closure.chartUrl)).threw,
                   SeriesOf(run, oRuns[run].closure), TweetOf(run), ResolverErrorMessage)
         /\ oRuns' = [oRuns EXCEPT ![run].pc = "done"]
         /\ oDone' = Append(oDone, run)
    /\ UNCHANGED <<pInput, pClosure, chartData, pRuns>>
    /\ UNCHANGED <<genVars, resolverVars, codexVars, tweetVars, anchorVars, endpointVars, historicalVars>>

OverlapStep ==
    \/ OverlapClickGenerate
    \/ OverlapChangeTimeframe
    \/ OverlapEditChartUrl
    \/ OverlapTestSettled
    \/ OverlapTweetSettled
    \/ OverlapChartSettled

-----------------------------------------------------------------------------
(* GET /api/historical-data                                                *)

NoHistoricalRequest == [chartUrl |-> <<>>, timeframe |-> "", tweetTimestamp |-> NoTweet]

NoMetadata == [source |-> "", dataPoints |-> 0, isRealData |-> FALSE,
               isGeneratedData |-> FALSE]

NoHistoricalResponse == [status |-> 0, metadata |-> NoMetadata]

HistoricalIdle ==
    hPc = "idle" /\ hRequest = NoHistoricalRequest /\ hResponse = NoHistoricalResponse

\* Lines 711-721 of the route: the metadata added to the resolver's result
\* (a result without dataPoints counts its prices).
HistoricalMetadata(chartDataResult) ==
    [source          |-> IF chartDataResult.source # "" THEN chartDataResult.source ELSE "unknown",
     dataPoints      |-> IF chartDataResult.dataPoints > 0 THEN chartDataResult.dataPoints
                         ELSE Len(chartDataResult.prices),
     isRealData      |-> chartDataResult.source = "codex",
     isGeneratedData |-> chartDataResult.source = "dexscreener"]

\* Lines 685-705: without a chartUrl the answer is 400; the timeframe
\* defaults to '1h'; fetchChartDataWithHistory is called.
HistoricalGet ==
    /\ hPc = "start"
    /\ IF hRequest.chartUrl \in {<<>>, <<"">>}
       THEN /\ hResponse' = [status |-> 400, metadata |-> NoMetadata]
            /\ hPc' = "done"
            /\ UNCHANGED resolverVars
       ELSE /\ FetchChartDataWithHistoryCall(
                   hRequest.chartUrl,
                   IF hRequest.timeframe # "" THEN hRequest.timeframe ELSE "1h",
                   hRequest.tweetTimestamp)
            /\ hPc' = "resolve"
            /\ UNCHANGED hResponse
    /\ UNCHANGED hRequest
    /\ UNCHANGED <<genVars, codexVars, tweetVars, pageVars, anchorVars, endpointVars, overlapVars>>

\* Lines 705-740: fetchChartDataWithHistory settles; its result goes out
\* with the metadata, a rejection is answered 500.
HistoricalSettled ==
    /\ hPc = "resolve" /\ rPc = "done"
    /\ hResponse' = IF rResult.outcome = "threw"
                    THEN [status |-> 500, metadata |-> NoMetadata]
                    ELSE [status |-> 200, metadata |-> HistoricalMetadata(rResult)]
    /\ hPc' = "done"
    /\ UNCHANGED hRequest
    /\ UNCHANGED <<genVars, resolverVars, codexVars, tweetVars, pageVars, anchorVars, endpointVars, overlapVars>>

HistoricalStep == HistoricalGet \/ HistoricalSettled

HistoricalChartUrls ==
    {DexUrl("solana", "7xKXtg2CW87d97TXJSDpbD5jBkheTqA83TZRuJosgAsU"),
     <<PumpAddress>>, <<"Bitcoin">>, <<"constructor">>, <<"">>}

-----------------------------------------------------------------------------
(* Specifications: one per component, the others idle                      *)

\* The generator called directly.
InitGen == GenInit /\ ResolverIdle /\ CodexIdle /\ TweetIdle /\ PageIdle /\ AnchorIdle /\ EndpointIdle /\ OverlapIdle /\ HistoricalIdle

SpecGen == InitGen /\ [][NextGen]_vars

\* GET /api/codex called directly.
CodexRequests ==
    [symbol : {NoSymbol,
               Symbol(PumpAddress, SolanaNetworkId),
               Symbol("7xKXtg2CW87d97TXJSDpbD5jBkheTqA83TZRuJosgAsU", SolanaNetworkId),
               Symbol("0xabc", "56")},
     timeframe : {"5m", "1h", "1m", "2h"},
     tweetTimestamp : ResolverTweets \cup {ToISOString(Instant(BaseSeconds + 3600, 500))}]

CodexEnvs == [apiKey : ApiKeys, now : Nows]

InitCodex ==
    /\ GenIdle /\ ResolverIdle /\ TweetIdle /\ PageIdle /\ AnchorIdle /\ EndpointIdle /\ OverlapIdle /\ HistoricalIdle
    /\ cPc = "start" /\ cRequest \in CodexRequests /\ cEnv \in CodexEnvs
    /\ cLocals = NoLocals /\ cSent = <<>> /\ cResponse = NoResponse

NextCodex == RouteStep

SpecCodex == InitCodex /\ [][NextCodex]_vars

\* fetchChartDataWithHistory called once, with /api/codex behind it.
InitResolver ==
    /\ GenIdle /\ TweetIdle /\ PageIdle /\ AnchorIdle /\ EndpointIdle /\ OverlapIdle /\ HistoricalIdle
    /\ rPc = "start"
    /\ rInput \in [chartUrl : ChartUrls, timeframe : ResolverTimeframes,
                   tweetTimestamp : ResolverTweets]
    /\ rCtx = NoCtx /\ rFetches = <<>> /\ rResult = Pending
    /\ cPc = "idle" /\ cRequest = NoRequest /\ cEnv \in CodexEnvs
    /\ cLocals = NoLocals /\ cSent = <<>> /\ cResponse = NoResponse

NextResolver == ResolverStep \/ RouteStep

SpecResolver == InitResolver /\ [][NextResolver]_vars

\* fetchTweetData called once.
InitTweet ==
    /\ GenIdle /\ ResolverIdle /\ CodexIdle /\ PageIdle /\ AnchorIdle /\ EndpointIdle /\ OverlapIdle /\ HistoricalIdle
    /\ tPc = "start" /\ tUrl \in TweetUrls /\ tNow \in TweetNows
    /\ tFetches = 0 /\ tResult = NoTweetRecord

NextTweet == TweetStep

SpecTweet == InitTweet /\ [][NextTweet]_vars

\* The page with everything behind it.  The runtime runs every continuation
\* whose promise has settled, and every awaited request is taken to settle.
PageEnvs == [apiKey : {"", "sk-live"}, now : Nows]

InitPage ==
    /\ GenIdle /\ ResolverIdle /\ TweetIdle /\ AnchorIdle /\ EndpointIdle /\ OverlapIdle /\ HistoricalIdle
    /\ cPc = "idle" /\ cRequest = NoRequest /\ cEnv \in PageEnvs
    /\ cLocals = NoLocals /\ cSent = <<>> /\ cResponse = NoResponse
    /\ pPc = "idle" /\ pClosure = NoPageInput
    /\ pInput \in [tweetUrl : PageTweetUrls, chartUrl : PageChartUrls,
                   timeframe : {"1h"}]
    /\ isLoading = FALSE /\ isGenerated = FALSE /\ chartData = "undefined"
    /\ apiChartData = "undefined" /\ fetchedTweetData = NoTweet
    /\ pToast = "" /\ pRuns = 0

NextPage == PageStep \/ TweetStep \/ ResolverStep \/ RouteStep

SpecPage == InitPage /\ [][NextPage]_vars /\ WF_vars(NextPage)

\* calculateTimeAnchorOnLine called once.
InitAnchor ==
    /\ GenIdle /\ ResolverIdle /\ CodexIdle /\ TweetIdle /\ PageIdle /\ EndpointIdle /\ OverlapIdle /\ HistoricalIdle
    /\ aPc = "ready" /\ aInput \in AnchorInputs /\ aResult = NoAnchor

NextAnchor == AnchorStep

SpecAnchor == InitAnchor /\ [][NextAnchor]_vars

InitEndpoint ==
    /\ GenIdle /\ ResolverIdle /\ CodexIdle /\ TweetIdle /\ PageIdle /\ AnchorIdle /\ OverlapIdle /\ HistoricalIdle
    /\ ePc = "start"
    /\ eInput \in [tweetId : EndpointTweetIds, now : EndpointNows, zone : EndpointZones]
    /\ eData = NoEndpointData /\ eResponse = NoEndpointResponse

NextEndpoint == EndpointStep

SpecEndpoint == InitEndpoint /\ [][NextEndpoint]_vars

InitOverlap ==
    /\ GenIdle /\ ResolverIdle /\ CodexIdle /\ TweetIdle /\ AnchorIdle /\ EndpointIdle
    /\ pPc = "idle" /\ pClosure = NoPageInput /\ pRuns = 0 /\ pToast = ""
    /\ pInput \in [tweetUrl : {OverlapTweetUrl}, chartUrl : OverlapChartUrls,
                   timeframe : {"1h"}]
    /\ isLoading = FALSE /\ isGenerated = FALSE /\ chartData = "undefined"
    /\ apiChartData = NoSeriesShown /\ fetchedTweetData = TweetOf(0)
    /\ OverlapIdle /\ HistoricalIdle

NextOverlap == OverlapStep

SpecOverlap == InitOverlap /\ [][NextOverlap]_vars

\* GET /api/historical-data called once, with the resolver and /api/codex
\* behind it.
InitHistorical ==
    /\ GenIdle /\ TweetIdle /\ PageIdle /\ AnchorIdle /\ EndpointIdle /\ OverlapIdle
    /\ ResolverIdle
    /\ cPc = "idle" /\ cRequest = NoRequest /\ cEnv \in CodexEnvs
    /\ cLocals = NoLocals /\ cSent = <<>> /\ cResponse = NoResponse
    /\ hPc = "start"
    /\ hRequest \in [chartUrl : HistoricalChartUrls, timeframe : {"5m", ""},
                     tweetTimestamp : ResolverTweets]
    /\ hResponse = NoHistoricalResponse

NextHistorical == HistoricalStep \/ ResolverStep \/ RouteStep

SpecHistorical == InitHistorical /\ [][NextHistorical]_vars

-----------------------------------------------------------------------------
(* Properties                                                              *)

KeyMissing == cEnv.apiKey = "" \/ cEnv.apiKey = "your-codex-api-key-here"

CodexTags == {"codex", "codex-forced", "codex-timestamp"}

GeneratedTags == {"dexscreener", "dexscreener-current-real", "dexscreener-final-fallback"}

\* C1: fetchChartDataWithHistory never throws: whatever the input string, the
\* timeframe and the provider outcomes, a finished call has returned a series.
C1_ResolverNeverThrows ==
    rPc = "done" => rResult.outcome = "returned"

\* C2: when /api/codex answered 422 (the first bar is later than the tweet)
\* for a token that is not the special-cased one, the finished call has
\* surfaced the error and has not returned a generated series.
C2_SurfacesTweetPredatesData ==
    (rPc = "done" /\ rCtx.attempt = "normal" /\ cResponse.status = 422)
        => (rResult.outcome = "threw" /\ rResult.generated = "none")

\* C3: fetchTweetData never throws; when no tweet id can be extracted the
\* record is exactly unknown / @unknown / now / the fallback text, and no
\* network request was issued.
C3_TweetResolverTotal ==
    tPc = "done" =>
        /\ tResult.outcome = "returned"
        /\ extractTweetId(tUrl) = "" =>
              /\ tResult.username = "unknown"
              /\ tResult.handle = <<"@", "unknown">>
              /\ tResult.text = "Tweet content unavailable - please manually input the tweet text"
              /\ DateParse(tResult.timestamp) = tNow
              /\ tFetches = 0

\* A call on a string without a tweet id has finished.
C3_Witness ==
    /\ tPc = "done" /\ tUrl = <<"not a url">>
    /\ tResult.username = "unknown" /\ tFetches = 0

\* C4: with the API key absent or the placeholder, /api/codex issues no
\* upstream request and answers with an error, and the resolver that called
\* it still returns a series, a generated one.
C4_MissingKeyDegrades ==
    KeyMissing =>
        /\ cSent = <<>>
        /\ cPc \notin {"tokenInfo", "dexInfo", "bars1", "bars2", "bars3", "bars4",
                       "bars5", "bars6"}
        /\ cPc = "done" => (cResponse.status = 500 /\ cResponse.error # "")
        /\ (rPc = "done" /\ rFetches # <<>> /\ rFetches[1] = "codex") =>
              /\ rResult.outcome = "returned"
              /\ rResult.generated \in {"pair", "mock"}
              /\ rResult.source \in {"dexscreener", "dexscreener-final-fallback"}
              /\ Len(rResult.prices) >= 1

\* The resolver called /api/codex without a key and has finished.
C4_Witness ==
    /\ KeyMissing /\ rPc = "done"
    /\ rFetches # <<>> /\ rFetches[1] = "codex"
    /\ rResult.outcome = "returned"

\* The status the catch block gives a caught message.
CaughtStatus(message) ==
    IF Mentions401(message) THEN 401 ELSE IF Mentions404(message) THEN 404 ELSE 500

\* The awaits after which the timestamp guard is applied, and those after
\* which PUMP passes it.
GuardedAwaits == {"bars1", "bars2", "bars3", "bars4"}

BypassAwaits == {"bars1", "bars2"}

\* C5 (as amended): every response has a status in {200, 400, 401, 404, 422,
\* 500} and every non-200 body an error; missing symbol gives 400 and missing
\* key 500, both before any upstream call; a caught error gives 401 or 404
\* when its message mentions that status or its reason phrase, else 500; no
\* bars in any attempt gives 404; a first bar later than the tweet gives 422
\* only after one of the first four attempts and not for PUMP after the
\* first two, and otherwise the bars are answered with 200.
C5_StatusByCause ==
    cPc = "done" =>
        /\ cResponse.status \in {200, 400, 401, 404, 422, 500}
        /\ cResponse.status # 200 => cResponse.error # ""
        /\ cResponse.status = 422 <=> cResponse.warning
        /\ ~cRequest.symbol.present => (cResponse.status = 400 /\ cSent = <<>>)
        /\ (cRequest.symbol.present /\ KeyMissing) =>
              (cResponse.status = 500 /\ cSent = <<>>)
        /\ (cRequest.symbol.present /\ ~KeyMissing) =>
              cResponse.status =
                 IF cLocals.thrown # "" THEN CaughtStatus(cLocals.thrown)
                 ELSE IF ~HasBars(cLocals.barsData) THEN 404
                 ELSE IF /\ TweetPredatesData(cRequest.tweetTimestamp, cLocals.barsData)
                         /\ cLocals.last \in GuardedAwaits
                         /\ ~(cLocals.last \in BypassAwaits
                              /\ IncludesPUMP(cLocals.displaySymbol))
                      THEN 422
                 ELSE 200

\* A request whose first bar is later than the tweet was answered 422.
C5_Witness ==
    /\ cPc = "done" /\ cResponse.status = 422
    /\ TweetPredatesData(cRequest.tweetTimestamp, cLocals.barsData)

\* C5 (as stated): the same statuses, with every caught error other than an
\* upstream 401 answered 500, and a first bar later than the tweet always
\* answered 422.
C5_StatusByCauseAsStated ==
    cPc = "done" =>
        /\ cResponse.status \in {200, 400, 401, 404, 422, 500}
        /\ cResponse.status # 200 => cResponse.error # ""
        /\ ~cRequest.symbol.present => (cResponse.status = 400 /\ cSent = <<>>)
        /\ (cRequest.symbol.present /\ KeyMissing) => cResponse.status = 500
        /\ (cRequest.symbol.present /\ ~KeyMissing) =>
              /\ cLocals.thrown = "HTTP 401: Unauthorized" => cResponse.status = 401
              /\ (cLocals.thrown # "" /\ cLocals.thrown # "HTTP 401: Unauthorized")
                    => cResponse.status = 500
              /\ (cLocals.thrown = "" /\ ~HasBars(cLocals.barsData))
                    => cResponse.status = 404
              /\ (cLocals.thrown = "" /\ HasBars(cLocals.barsData)
                  /\ TweetPredatesData(cRequest.tweetTimestamp, cLocals.barsData))
                    => cResponse.status = 422

SeriesOfLength(series, n) ==
    /\ Len(series.prices) = n
    /\ Len(series.volumes) = n
    /\ Len(series.timestamps) = n

\* C7: a 200 response of /api/codex carries a series whose three arrays and
\* dataPoints all have the number of opens of the accepted bars payload
\* (at least one), and the resolver returns those arrays and dataPoints
\* unchanged.
C7_CodexSeriesLengths ==
    /\ (cPc = "done" /\ cResponse.status = 200) =>
          /\ HasBars(cLocals.barsData)
          /\ cResponse.series.dataPoints = Len(cLocals.barsData.o)
          /\ SeriesOfLength(cResponse.series, Len(cLocals.barsData.o))
    /\ (rPc = "done" /\ rResult.outcome = "returned" /\ rResult.generated = "none") =>
          /\ cResponse.status = 200
          /\ rResult.prices = cResponse.series.prices
          /\ rResult.volumes = cResponse.series.volumes
          /\ rResult.timestamps = cResponse.series.timestamps
          /\ rResult.dataPoints = cResponse.series.dataPoints
          /\ rResult.dataPoints >= 1
          /\ SeriesOfLength(rResult, rResult.dataPoints)

\* The resolver has returned a Codex series of more than one bar.
C7_Witness ==
    /\ rPc = "done" /\ rResult.outcome = "returned"
    /\ rResult.source = "codex" /\ rResult.dataPoints >= 2

\* C8: every generated series has three arrays of one positive length, every
\* price > 0 and every volume >= 0.
C8_PositiveSeries ==
    gPc = "done" =>
        /\ Len(gOut.prices) >= 1
        /\ Len(gOut.volumes) = Len(gOut.prices)
        /\ Len(gOut.timestamps) = Len(gOut.prices)
        /\ \A k \in 1..Len(gOut.prices) : gOut.prices[k] \subseteq {"Pos", "PosInf"}
        /\ \A k \in 1..Len(gOut.volumes) : gOut.volumes[k] \subseteq {"Zero", "Pos", "PosInf"}

\* C9: the timestamps of a generated series increase strictly, consecutive
\* ones lie exactly one sample interval apart, and the first is the centre
\* (the tweet, or now) minus half the window.
C9_EvenlySpaced ==
    gPc = "done" =>
        LET ts == [k \in 1..Len(gOut.timestamps) |-> DateParse(gOut.timestamps[k])]
            center == IF gTweet # NoTweet THEN DateParse(gTweet) ELSE gNow
        IN  /\ Len(ts) >= 1
            /\ ts[1].ms = center.ms
            /\ 2 * (center.s - ts[1].s) = gPolicy.timeframeMs
            /\ \A k \in 1..(Len(ts) - 1) :
                  /\ Before(ts[k], ts[k + 1])
                  /\ ts[k + 1].ms = ts[k].ms
                  /\ ts[k + 1].s - ts[k].s = gPolicy.intervalMs

\* A series centred on a tweet has been generated from a snapshot.
C9_Witness ==
    /\ gPc = "done" /\ gKind = "pair" /\ gTweet # NoTweet
    /\ Len(gOut.timestamps) >= 2

\* C10: the interval, the window and the sample cap are positive for every
\* timeframe, and a timeframe no table lists gets the values of "1h".
C10_PolicyDefaults ==
    gPc = "done" =>
        /\ gPolicy.intervalMs > 0
        /\ gPolicy.timeframeMs > 0
        /\ gPolicy.maxDataPoints >= 1
        /\ gTimeframe \notin ListedTimeframes =>
              /\ gPolicy.intervalMs = 60 * 60
              /\ gPolicy.timeframeMs = 24 * 60 * 60
              /\ gPolicy.maxDataPoints = 24
        /\ gTimeframe = "1h" =>
              /\ gPolicy.intervalMs = 60 * 60
              /\ gPolicy.timeframeMs = 24 * 60 * 60
              /\ gPolicy.maxDataPoints = 24

\* The lookups ran for a timeframe no table lists.
C10_Witness ==
    /\ gPc = "done" /\ gTimeframe = "1w"
    /\ gPolicy.intervalMs = 60 * 60


-----------------------------------------------------------------------------
(* C11..C20                                                                *)

\* C11: every invocation of handleGenerate that has set isLoading leads to
\* isLoading = false with isGenerated = true, whatever the tweet lookup and
\* the chart providers come back with, every awaited request settling: the
\* page is never left loading.
C11_GenerateTerminates == isLoading ~> (~isLoading /\ isGenerated)

\* An invocation whose chart lookup rejected has finished: the error toast
\* is up, the page is no longer loading and counts as generated.
C11_Witness ==
    /\ pPc = "idle" /\ pRuns > 0 /\ pToast = "Chart Generation Error"
    /\ ~isLoading /\ isGenerated

\* The providers one resolution has a request out to: GET /api/codex from the
\* call until the resolver has taken its outcome, DexScreener while an
\* endpoint of fetchChartData is awaited, and the PEPE lookup of
\* getFallbackRealData.
ProvidersInFlight ==
    (IF cPc # "idle" THEN {"codex"} ELSE {})
    \cup (IF rPc = "dex" THEN {"dex"} ELSE {})
    \cup (IF rPc = "pepe" THEN {"pepe"} ELSE {})

\* The Codex attempt is over and has failed: the fetch rejected before any
\* response, or the response is not a 200.
CodexFailed == cPc = "start" \/ (cPc = "done" /\ cResponse.status # 200)

\* fetchChartData finds no chain or no address in the URL and throws before
\* any request.
SnapshotUrlInvalid ==
    LET tokenInfo == extractTokenFromUrl(ActualUrl(rInput.chartUrl))
    IN  tokenInfo.threw \/ tokenInfo.address = "" \/ tokenInfo.chain = ""

ProviderRank(provider) ==
    CASE provider = "codex" -> 1 [] provider = "dex" -> 2 [] OTHER -> 3

\* C12: within one resolution the provider attempts are serial.  The first
\* DexScreener request is issued by the step that takes a failed Codex
\* attempt; the PEPE lookup of the last resort is issued only by a step that
\* takes a failed DexScreener endpoint, or by the start of a resolution whose
\* URL fetchChartData rejects; requests are issued in the order Codex,
\* DexScreener, last resort; and at no time are two providers in flight.
C12_SerialProviders ==
    [][/\ (rPc' = "dex" /\ rPc # "dex") => (rPc = "codex" /\ CodexFailed)
       /\ (rPc' = "pepe" /\ rPc # "pepe") =>
              (rPc = "dex" \/ (rPc = "start" /\ SnapshotUrlInvalid))
       /\ \A i, j \in 1..Len(rFetches') :
              i < j => ProviderRank(rFetches'[i]) <= ProviderRank(rFetches'[j])
       /\ Cardinality(ProvidersInFlight') <= 1]_vars

\* All three providers were tried in one resolution, and the last resort
\* is being awaited.
C12_Witness ==
    /\ rPc = "pepe" /\ Len(rFetches) >= 3
    /\ rFetches[1] = "codex" /\ rFetches[2] = "dex"

\* The call has returned for a chart that is rendered: canvas and container
\* are there.
AnchorReturned == aPc = "done" /\ aInput.chart.canvas /\ aInput.chart.container

\* The 0-based indices of the samples whose timestamp is the tweet's.
MatchingSamples ==
    {j \in 0..(Len(aInput.chart.timestamps) - 1) :
        aInput.chart.timestamps[j + 1] = aInput.tweetTime}

\* The returned point is where sample `index` is drawn; part_001 reports it
\* relative to the container, tweet-overlay.tsx relative to the canvas.
AtSample(index) ==
    /\ aResult.anchorIndex = index
    /\ aResult.x = getPixelForIndex(index)
                    + (IF aInput.version = "part_001" THEN ChartLayout.canvasOffsetX ELSE 0)
    /\ aResult.y = getPixelForPrice(aInput.chart.prices[index + 1])
                    + (IF aInput.version = "part_001" THEN ChartLayout.canvasOffsetY ELSE 0)

\* The moves the spike search looks at around sample j: from sample i to
\* sample i + 1, for i from min(5, floor(n/8)) before j up to two short of
\* min(20, floor(n/3)) after j (or of the last sample), with neither price 0.
SearchedMoves(j) ==
    LET n == Len(aInput.chart.prices)
    IN  {i \in 0..(n - 2) :
            /\ i >= j - Min(5, n \div 8)
            /\ i <= Min(n - 1, j + Min(20, n \div 3)) - 2
            /\ aInput.chart.prices[i + 1] # 0 /\ aInput.chart.prices[i + 2] # 0}

\* The relative size of move i exceeds that of move k.
LargerMove(i, k) ==
    LET prices == aInput.chart.prices
    IN  AbsDiff(prices[i + 2], prices[i + 1]) * prices[k + 1]
            > AbsDiff(prices[k + 2], prices[k + 1]) * prices[i + 1]

\* Moves of more than 5% among those searched.
Spikes(j) ==
    {i \in SearchedMoves(j) :
        100 * AbsDiff(aInput.chart.prices[i + 2], aInput.chart.prices[i + 1])
            > 5 * aInput.chart.prices[i + 1]}

\* C13 as stated: a tweet timestamp equal to a sample's timestamp is anchored
\* at that very sample, for every series and every timeframe.
C13_ExactMatchAnchorsAtSample ==
    AnchorReturned => \A j \in MatchingSamples : AtSample(j)

\* C13: a tweet timestamp equal to the timestamp of sample j is anchored at
\* sample j by tweet-overlay.tsx, and by part_001 for timeframe "1m" or when
\* no searched move around j exceeds 5%; otherwise part_001 anchors it at the
\* sample where the largest such move starts (the earliest of equal ones).
C13_ExactMatchOrSpikeStart ==
    AnchorReturned =>
        \A j \in MatchingSamples :
            IF aInput.version = "part_001" /\ aInput.timeframe # "1m" /\ Spikes(j) # {}
            THEN \E i \in Spikes(j) :
                    /\ AtSample(i)
                    /\ \A k \in Spikes(j) : ~LargerMove(k, i) /\ (k < i => LargerMove(i, k))
            ELSE AtSample(j)

\* The tweet is on sample 4 of nine and a move of more than 5% starts
\* elsewhere in the window: part_001 has anchored at the start of the move.
C13_Witness ==
    /\ AnchorReturned /\ aInput.version = "part_001"
    /\ Len(aInput.chart.timestamps) = 9 /\ MatchingSamples = {4}
    /\ aResult.spikeDetected /\ aResult.anchorIndex # 4

\* The tolerance of the timeframe in the component that ran.
Tolerance ==
    IF aInput.version = "part_001" THEN toleranceMs(aInput.timeframe)
    ELSE toleranceMsOverlay(aInput.timeframe)

\* The tweet lies outside [first sample, last sample] by more than the
\* tolerance.
FarOutside ==
    LET n == Len(aInput.chart.timestamps)
    IN  \/ aInput.tweetTime < aInput.chart.timestamps[1] - Tolerance
        \/ aInput.tweetTime > aInput.chart.timestamps[n] + Tolerance

\* C14: a tweet timestamp outside the series' range by more than the
\* timeframe's tolerance is anchored at the midpoint sample, index
\* floor(n / 2), whatever the spike search and the nearest sample are.
C14_FarOutsideAnchorsAtMidpoint ==
    (AnchorReturned /\ FarOutside) =>
        /\ AtSample(Len(aInput.chart.timestamps) \div 2)
        /\ aResult.usingCenterFallback

\* A tweet 400 days before a daily series of nine samples in which the spike
\* search found a move: the anchor is sample 4.
C14_Witness ==
    /\ AnchorReturned /\ aInput.version = "part_001" /\ aInput.timeframe = "1d"
    /\ Len(aInput.chart.timestamps) = 9
    /\ aInput.tweetTime = aInput.chart.timestamps[1] - FourHundredDays
    /\ aResult.spikeDetected /\ aResult.anchorIndex = 4

\* The getBars requests sent so far, oldest first.
BarsSent == SelectSeq(cSent, LAMBDA request : request.kind = "bars")

\* The query variables the request calls for: the window of the timeframe
\* around the tweet at the primary resolution, and symbolType POOL for an
\* address of more than 30 characters, TOKEN otherwise.
OriginalVariables ==
    LET range == calculateTimeRange(cRequest.timeframe, cRequest.tweetTimestamp, cEnv.now)
    IN  [symbol     |-> cRequest.symbol,
         symbolType |-> IF StrLen(cRequest.symbol.address) > 30 THEN "POOL" ELSE "TOKEN",
         from |-> range.from, to |-> range.to,
         resolution |-> range.resolution, countback |-> 0]

OppositeType(symbolType) == IF symbolType = "POOL" THEN "TOKEN" ELSE "POOL"

\* The k-th getBars request of the cascade.  From the second on the
\* symbolType is the opposite one; the third asks for the recent data, the
\* fourth for the fallback resolution, the fifth and sixth for the networks
\* 101 and 900, each otherwise as the second.
CascadeRequest(k) ==
    LET original == OriginalVariables
        retried  == [original EXCEPT !.symbolType = OppositeType(original.symbolType)]
    IN  BarsRequest(
            CASE k = 1 -> original
              [] k = 2 -> retried
              [] k = 3 -> [retried EXCEPT !.from = 0, !.to = cEnv.now.s, !.countback = 1500]
              [] k = 4 -> [retried EXCEPT !.resolution =
                              calculateTimeRange(cRequest.timeframe, cRequest.tweetTimestamp,
                                                 cEnv.now).fallback]
              [] k = 5 -> [retried EXCEPT !.symbol = Symbol(cRequest.symbol.address, "101")]
              [] OTHER -> [retried EXCEPT !.symbol = Symbol(cRequest.symbol.address, "900")])

\* The attempts that apply to the request: six on network 1399811149, four
\* elsewhere.
ApplicableAttempts == IF cRequest.symbol.networkId = SolanaNetworkId THEN 6 ELSE 4

\* The order of the cascade, and what lets it go on: every request sent is
\* the one of its position, no more are sent than apply, a further request
\* goes out only in the step that took an empty answer to the one before,
\* and the step that takes bars ends the request.
CascadeOrder ==
    /\ Len(BarsSent') <= ApplicableAttempts'
    /\ \A k \in 1..Len(BarsSent') : BarsSent'[k] = CascadeRequest(k)'
    /\ (Len(BarsSent') > Len(BarsSent) /\ Len(BarsSent) >= 1) =>
           (cLocals'.barsData.kind = "no_data" /\ cLocals'.last = cPc)
    /\ (cLocals'.last = cPc /\ cLocals'.last # cLocals.last
           /\ HasBars(cLocals'.barsData)) => cPc' = "done"

\* C15 as stated: the getBars requests go out in the fixed order, each only
\* after an empty answer to the one before, the first answer with bars ends
\* the cascade, and a 404 is returned only after every applicable attempt
\* came back empty.
C15_CascadeAsStated ==
    [][/\ CascadeOrder
       /\ (cPc' = "done" /\ cResponse'.status = 404) =>
              (Len(BarsSent') = ApplicableAttempts' /\ cLocals'.barsData.kind = "no_data"
               /\ cLocals'.thrown = "")]_vars

\* C15: the getBars requests go out in the fixed order, each only after an
\* empty answer to the one before, and the first answer with bars ends the
\* cascade.  The 404 "No historical data available" is returned only after
\* every applicable attempt came back empty; any other 404 is the answer of
\* the catch block to an error that mentions 404 or Not Found, at whichever
\* attempt it was thrown.
C15_CascadeOrder404 ==
    [][/\ CascadeOrder
       /\ (cPc' = "done" /\ cResponse'.status = 404) =>
              IF cLocals'.thrown = ""
              THEN /\ Len(BarsSent') = ApplicableAttempts'
                   /\ cLocals'.barsData.kind = "no_data"
                   /\ cResponse' = NoDataReply
              ELSE Mentions404(cLocals'.thrown)]_vars

\* A request on network 1399811149 was answered 404 after all six attempts
\* came back empty.
C15_Witness ==
    /\ cPc = "done" /\ cResponse = NoDataReply /\ cLocals.thrown = ""
    /\ Len(BarsSent) = 6 /\ BarsSent[6].symbol.networkId = "900"

\* C16: for a display symbol that contains 'PUMP', whichever attempt of the
\* cascade first yields bars, bars that start after the tweet are answered
\* with the data and status 200, never with 422.
C16_PumpBypassesGuard ==
    (/\ cPc = "done"
     /\ IncludesPUMP(cLocals.displaySymbol)
     /\ HasBars(cLocals.barsData)
     /\ TweetPredatesData(cRequest.tweetTimestamp, cLocals.barsData))
    => /\ cResponse.status # 422
       /\ cLocals.thrown = "" => cResponse.status = 200

\* C17: a generated series holds min(ceil(window / interval), cap) samples,
\* in each of its three parallel sequences, for every timeframe token and in
\* both the snapshot-based and the mock generator; the loop bound and the
\* count that divides the loop index into timeProgress are the same number.
C17_SampleCount ==
    gPc = "done" =>
        LET sampleCount == Min(Ceil(gPolicy.timeframeMs, gPolicy.intervalMs),
                               gPolicy.maxDataPoints)
        IN  /\ Len(gOut.prices) = sampleCount
            /\ Len(gOut.volumes) = sampleCount
            /\ Len(gOut.timestamps) = sampleCount
            /\ TotalDataPoints(gTimeframe) = ActualDataPoints(gTimeframe)

\* The snapshot-based generator returned the 42 samples of a four-hour chart.
C17_Witness ==
    /\ gPc = "done" /\ gKind = "pair" /\ gTimeframe = "4h"
    /\ Len(gOut.timestamps) = 42

\* C18: for every timeframe token, listed or defaulted, the window divided
\* by the interval, rounded up, does not exceed the sample cap, so the cap
\* never cuts the centred window short.
C18_WindowFitsCap ==
    gPc = "done" =>
        /\ Ceil(gPolicy.timeframeMs, gPolicy.intervalMs) <= gPolicy.maxDataPoints
        /\ \A timeframe \in Timeframes :
              Ceil(getTimeframeInMs(timeframe), getIntervalMs(timeframe))
                  <= getOptimalDataPoints(timeframe)
        /\ LET last == DateParse(gOut.timestamps[Len(gOut.timestamps)])
               first == DateParse(gOut.timestamps[1])
           IN  last.s - first.s + gPolicy.intervalMs >= gPolicy.timeframeMs

\* The three lookups ran for a token no table lists and the series spans
\* the whole default window.
C18_Witness ==
    /\ gPc = "done" /\ gTimeframe = "2h"
    /\ gPolicy.maxDataPoints = 24
    /\ Len(gOut.timestamps) = 24

\* The upstream answered with a tweet object and the response is out.
TweetObjectAnswered == ePc = "done" /\ eData.kind = "object"

\* created_at is missing or empty, or is text that is no date.
CreatedAtGaveNoDate ==
    \/ ~Truthy(eData.created_at)
    \/ IsNaNDate(NewDateOfCreatedAt(eData.created_at))

\* floor(id / 2^22) + 1288834974657 ms for a decimal id, as an instant.
SnowflakeInstant ==
    LET floorMs == (eInput.tweetId[3] - (eInput.tweetId[3] % TwoPow22)) \div TwoPow22
        sumMs   == floorMs + 657
    IN  Instant(eInput.tweetId[2] + 1288834974 + (sumMs \div 1000), sumMs % 1000)

\* The id is a decimal integer whose decoded instant is a date of a year
\* from 2006 to the current one.
SnowflakeUsable ==
    /\ eInput.tweetId[1] = "int"
    /\ getFullYear(SnowflakeInstant, eInput.zone) >= 2006
    /\ getFullYear(SnowflakeInstant, eInput.zone) <= getFullYear(eInput.now, eInput.zone)

\* C19: when the upstream's created_at is absent, or present but not
\* parseable, and the date decoded from the tweet id passes the year bound,
\* the timestamp returned is the decoded one and not the clock's.
C19_DecodedWhenNoCreationDate ==
    (TweetObjectAnswered /\ CreatedAtGaveNoDate /\ SnowflakeUsable) =>
        /\ eResponse.status = 200
        /\ eResponse.timestamp = ToISOString(SnowflakeInstant)

\* C20: the timestamp decoded from an id is floor(id / 2^22) +
\* 1288834974657 ms; it is returned only for an id whose decoded year lies
\* in 2006..current year; for an id that decodes outside that range, or is
\* no integer, the response is still a success and carries the clock's
\* time.
C20_SnowflakeBounds ==
    TweetObjectAnswered =>
        /\ eResponse.status = 200
        /\ (~Truthy(eData.created_at) /\ SnowflakeUsable) =>
              eResponse.timestamp = ToISOString(SnowflakeInstant)
        /\ (CreatedAtGaveNoDate /\ ~SnowflakeUsable) =>
              eResponse.timestamp = ToISOString(eInput.now)
        /\ (eInput.tweetId[1] = "int" /\ ~SnowflakeUsable) =>
              eResponse.timestamp # ToISOString(SnowflakeInstant)

\* An id of 2018 was decoded for a tweet object without created_at; the
\* milliseconds of the quotient and of the epoch carry into the seconds.
C20_Witness ==
    /\ TweetObjectAnswered /\ ~Truthy(eData.created_at)
    /\ eInput.tweetId = <<"int", 250367790, 1563281088>>
    /\ eResponse.timestamp = <<"ISO", 1539202765, 29>>

-----------------------------------------------------------------------------
(* C21..C30                                                                *)

\* The four URL forms of parseTweetUrl: a host, a user name or "i/web",
\* "status" and an id of digits.
SupportedTweetUrl(tweetUrl) ==
    /\ Len(tweetUrl) \in {6, 7}
    /\ tweetUrl[3] \in {"twitter.com", "x.com"}
    /\ tweetUrl[Len(tweetUrl) - 1] = "status"
    /\ LeadingDigits(tweetUrl[Len(tweetUrl)]) # ""
    /\ IF Len(tweetUrl) = 6 THEN tweetUrl[4] # ""
       ELSE tweetUrl[4] = "i" /\ tweetUrl[5] = "web"

\* C21: for each supported URL form, with a user name or with "i/web" in
\* its place, the extraction yields the status id and fetchTweetData goes
\* on to request the tweet.
C21_IdFromEverySupportedForm ==
    (tPc # "start" /\ SupportedTweetUrl(tUrl)) =>
        /\ extractTweetId(tUrl) = LeadingDigits(tUrl[Len(tUrl)])
        /\ tFetches = 1

\* Every invocation of handleGenerate issued so far has run to its end.
AllInvocationsDone ==
    /\ Len(oRuns) >= 1
    /\ \A run \in 1..Len(oRuns) : oRuns[run].pc = "done"

\* Some invocation was issued while another was in flight.
InvocationsOverlapped == \E run \in 1..Len(oRuns) : oRuns[run].inFlight # {}

\* C22: when invocations of handleGenerate overlapped, the series and the
\* tweet shown after all have finished are those of the invocation that
\* finished last, whichever was issued first.
C22_LastCompletedIsShown ==
    (AllInvocationsDone /\ InvocationsOverlapped) =>
        /\ apiChartData.run = oDone[Len(oDone)]
        /\ fetchedTweetData = TweetOf(oDone[Len(oDone)])

\* The invocation issued last was called by the timeframe selector, has
\* stored its series, and the selector still shows what was selected then.
RegenerationShown ==
    /\ AllInvocationsDone
    /\ oRuns[Len(oRuns)].trigger = "select"
    /\ oRuns[Len(oRuns)].selected = pInput.timeframe
    /\ apiChartData.run = Len(oRuns)

\* C25: the regeneration a timeframe change triggers on a generated chart
\* resolves chart data for the timeframe just selected, so that, once it
\* has completed, the series shown was fetched for the timeframe the
\* selector and the chart component show.
C25_RegeneratesForSelectedTimeframe ==
    /\ \A run \in 1..Len(oRuns) :
          oRuns[run].trigger = "select" =>
              oRuns[run].closure.timeframe = oRuns[run].selected
    /\ RegenerationShown => apiChartData.timeframe = pInput.timeframe

\* C27: isLoading is true in every state in which an invocation of
\* handleGenerate has not run to its end; the end of one of two overlapping
\* invocations does not clear it while the other is in flight.
C27_LoadingWhileInFlight ==
    (\E run \in 1..Len(oRuns) : oRuns[run].pc # "done") => isLoading

\* The first getBars request of a call has gone out.
FirstBarsSent == Len(BarsSent) >= 1

BackupLookupFailed ==
    /\ rPc = "done" /\ rResult.outcome = "returned"
    /\ rFetches # <<>> /\ rFetches[Len(rFetches)] = "pepe"
    /\ rResult.generated # "pair"

\* C24: when the snapshot lookup for the address and the backup lookup have
\* both failed, the series returned comes from the mock generator, has at
\* least one sample (in each of its sequences), currentPrice is its last
\* price and marketCap is currentPrice times the supply of 420690000000000.
C24_LastResortSeries ==
    BackupLookupFailed =>
        /\ rResult.generated = "mock"
        /\ Len(rResult.prices) >= 1
        /\ Len(rResult.volumes) = Len(rResult.prices)
        /\ Len(rResult.timestamps) = Len(rResult.prices)
        /\ rResult.currentPrice = <<"prices", Len(rResult.prices)>>
        /\ rResult.marketCap = <<"times", rResult.currentPrice,
                                 [mantissa |-> 42069, exponent |-> 10]>>

\* Every DexScreener endpoint was tried for the address before the backup
\* lookup, which failed too.
C24_Witness ==
    /\ BackupLookupFailed
    /\ Len(SelectSeq(rFetches, LAMBDA fetch : fetch = "dex")) >= 2
    /\ Len(rResult.prices) = 24

\* C26: a 200 answer to a request that carries a tweet timestamp holds a
\* series whose earliest bar is not later than the tweet, unless the display
\* symbol contains 'PUMP'; on every path of the cascade, the alternate
\* network ids included.
C26_SeriesReachesBackToTweet ==
    (/\ cPc = "done" /\ cResponse.status = 200
     /\ cRequest.tweetTimestamp # NoTweet
     /\ ~IncludesPUMP(cLocals.displaySymbol))
    => /\ Len(cResponse.series.timestamps) >= 1
       /\ ~Before(DateParse(cRequest.tweetTimestamp),
                  DateParse(cResponse.series.timestamps[1]))

\* The symbolType inferred from the address: POOL for more than thirty
\* characters, TOKEN otherwise.
InferredSymbolType == IF StrLen(cRequest.symbol.address) > 30 THEN "POOL" ELSE "TOKEN"

\* C28: the inferred symbolType goes out with the first getBars request
\* only; the second request and every later one (recent data, fallback
\* resolution, alternate network ids) carry the opposite symbolType, so the
\* inferred one is never tried with the recent window or the coarser
\* resolution.
C28_FlippedTypePersists ==
    /\ FirstBarsSent => BarsSent[1].symbolType = InferredSymbolType
    /\ \A k \in 2..Len(BarsSent) :
          /\ BarsSent[k].symbolType # InferredSymbolType
          /\ BarsSent[k].symbolType \in {"POOL", "TOKEN"}
    /\ Len(BarsSent) >= 3 => BarsSent[3].countback = 1500
    /\ Len(BarsSent) >= 4 =>
          BarsSent[4].resolution = ResolutionMap(cRequest.timeframe).fallback

\* The cascade of a pool address has reached the alternate network ids.
C28_Witness ==
    /\ Len(BarsSent) >= 5
    /\ BarsSent[1].symbolType = "POOL"
    /\ BarsSent[3].symbolType = "TOKEN" /\ BarsSent[3].countback = 1500
    /\ BarsSent[5].symbolType = "TOKEN" /\ BarsSent[5].symbol.networkId = "101"

\* C29: a success response of /api/historical-data has exactly one of
\* metadata.isRealData and metadata.isGeneratedData true, and isRealData is
\* true whenever the bars came from Codex, whichever source tag the
\* resolver gave the result.
C29_ExactlyOneFlag ==
    (hPc = "done" /\ hResponse.status = 200) =>
        /\ hResponse.metadata.isRealData # hResponse.metadata.isGeneratedData
        /\ rResult.generated = "none" => hResponse.metadata.isRealData

\* Math.abs(a.getTime() - b.getTime()) of two instants, kept as whole
\* seconds and milliseconds.
InstantDistance(a, b) ==
    LET lo == IF Before(a, b) THEN a ELSE b
        hi == IF Before(a, b) THEN b ELSE a
    IN  IF hi.ms >= lo.ms THEN Instant(hi.s - lo.s, hi.ms - lo.ms)
        ELSE Instant(hi.s - lo.s - 1, hi.ms + 1000 - lo.ms)

\* Lines 144-153 of the anchor locator over the ISO strings of a series:
\* the first sample of least distance to the tweet (0-based index).
RECURSIVE ClosestSampleScan(_, _, _, _)
ClosestSampleScan(timestamps, inputDateTime, index, best) ==
    IF index >= Len(timestamps) THEN best
    ELSE LET difference == InstantDistance(DateParse(timestamps[index + 1]), inputDateTime)
         IN  ClosestSampleScan(timestamps, inputDateTime, index + 1,
                 IF best.infinite \/ Before(difference, best.minDifference)
                 THEN [closestIndex |-> index, minDifference |-> difference,
                       infinite |-> FALSE]
                 ELSE best)

ClosestSample(timestamps, inputDateTime) ==
    ClosestSampleScan(timestamps, inputDateTime, 0,
                      [closestIndex |-> 0, minDifference |-> Instant(0, 0),
                       infinite |-> TRUE])

\* C30: for every timeframe, a synthetic series generated around a tweet has
\* a sample whose timestamp is the tweet's instant exactly, at index n/2 of
\* its n samples; the tweet lies between the first and the last sample; so
\* the anchor locator's closest sample is the sample of its midpoint
\* fallback, index floor(n/2).
C30_TweetSampleAtMidpoint ==
    (gPc = "done" /\ gTweet # NoTweet) =>
        LET timestamps == gOut.timestamps
            n          == Len(timestamps)
            tweetTime  == DateParse(gTweet)
        IN  /\ n > 0
            /\ DateParse(timestamps[n \div 2 + 1]) = tweetTime
            /\ ~Before(tweetTime, DateParse(timestamps[1]))
            /\ ~Before(DateParse(timestamps[n]), tweetTime)
            /\ ClosestSample(timestamps, tweetTime).closestIndex = n \div 2
            /\ ClosestSample(timestamps, tweetTime).minDifference = Instant(0, 0)

\* A four-hour series of 42 samples generated from a pair around a tweet
\* with a millisecond part: the closest sample is sample 21.
C30_Witness ==
    /\ gPc = "done" /\ gKind = "pair" /\ gTimeframe = "4h"
    /\ gTweet = ToISOString(Instant(BaseSeconds + 7 * 3600, 500))
    /\ Len(gOut.timestamps) = 42
    /\ ClosestSample(gOut.timestamps, DateParse(gTweet)).closestIndex = 21

=============================================================================
